---- MODULE Spec2Model ----
(***************************************************************************)
(* A model of the red-team simulator: the scenario generator               *)
(* (src/src/models/claude_agent.py), the attack simulator                  *)
(* (src/src/simulators/red_team_simulator.py), the OSINT target provider  *)
(* (src/src/analyzers/osint_collector.py) and the routes /api/simulate and *)
(* /api/search (src/src/api/app.py).                                       *)
(*                                                                         *)
(* Python dicts are heap objects: a scenario is an entry of `scenarios`    *)
(* and is referred to by its index; the simulator's history and its        *)
(* current scenario hold such references.  Probabilities are in            *)
(* hundredths (0.3 is 30).                                                 *)
(***************************************************************************)
EXTENDS Integers, Sequences, FiniteSets, TLC

VARIABLES
    scenarios,           \* the scenario dicts allocated so far (the heap)
    current_scenario,    \* RedTeamSimulator.current_scenario: a reference, 0 is None
    simulation_history,  \* RedTeamSimulator.simulation_history: references
    lastOp,              \* the last call a caller made on the simulator and how it ended
    aisCache,            \* the file processed_kaggle_ais.json, with its age in seconds
    infraCache,          \* the file infrastructure_US.json, with its age in seconds
    osintOp,             \* the last target-provider call made and what it returned
    historyAnalysis,     \* the last ClaudeAgent.analyze_simulation_results call and its result
    results_file,        \* the file RedTeamSimulator.save_results wrote last
    simulation_results,  \* app.py's list simulation_results: references
    response,            \* the last HTTP request served whole and its response
    requests,            \* the /api/simulate requests in flight, with their local variables
    system_details       \* the last _get_detailed_system_info call and the dict it built

simVars == <<scenarios, current_scenario, simulation_history>>
simulatorVars == <<scenarios, current_scenario, simulation_history, lastOp>>
osintVars == <<aisCache, infraCache, osintOp>>
serviceVars == <<historyAnalysis, results_file, simulation_results, response, requests,
                 system_details>>
vars == <<scenarios, current_scenario, simulation_history, lastOp,
          aisCache, infraCache, osintOp,
          historyAnalysis, results_file, simulation_results, response, requests,
          system_details>>

-----------------------------------------------------------------------------
(* Bounds of the model *)

MaxCalls == 4          \* scenario dicts allocated plus simulate_attack calls that return
MaxSteps == 1          \* longest step list of a caller-built scenario
MaxSeed == 1           \* the random module's outcomes are those of the seeds 0..MaxSeed

(* Program constants *)

FailureProbability == 30     \* random.random() > 0.3
StopProbability == 50        \* random.random() > 0.5

\* The values one random.random() draw takes in the model: 0.3, which is not
\* above the failure probability nor above 0.5, and 0.6, which is above both.
RandVals == {30, 60}

\* All sequences of length n over S.
RECURSIVE SeqsOfLen(_, _)
SeqsOfLen(S, n) ==
    IF n = 0 THEN {<<>>}
    ELSE {Append(s, x) : s \in SeqsOfLen(S, n - 1), x \in S}

None == 0

-----------------------------------------------------------------------------
(* The text-generation service *)

ApiError == "<<raises>>"
\* Replies of the service: a well-formed scenario, the empty string, free
\* text, malformed JSON, JSON with no steps.
WellFormedReply == "{\"attack_vector\": \"phishing\", \"steps\": [\"a\"], \"impact\": \"High\"}"
Replies == {WellFormedReply, "", "I cannot help with that", "{\"steps\": [", "{\"steps\": []}"}
ServiceOutcomes == Replies \cup {ApiError}

Complexities == {"low", "medium", "high", "critical"}

\* Targets handed to the simulator.
Targets ==
    { [type |-> "maritime", id |-> "123", systems |-> <<"navigation", "communication">>] }

\* The value of a string field that is None.
Null == "<<None>>"

\* A parser that reads the reply: a reply it cannot decompose yields no fields.
ParseAttackScenarioReadingReply(text) ==
    IF text = WellFormedReply
    THEN [ attack_vector |-> "phishing", steps |-> <<"a">>, impact |-> "High",
           indicators |-> <<>>, attacker_profile |-> [resources |-> Null, skills |-> Null] ]
    ELSE [ attack_vector |-> Null, steps |-> <<>>, impact |-> Null,
           indicators |-> <<>>, attacker_profile |-> [resources |-> Null, skills |-> Null] ]

\* ClaudeAgent._parse_attack_scenario: the reply is not read.
ParseAttackScenario(text) ==
    [ attack_vector |-> "Example attack vector",
      steps |-> <<"Step 1", "Step 2", "Step 3">>,
      impact |-> "Critical",
      indicators |-> <<"IOC 1", "IOC 2">>,
      attacker_profile |-> [resources |-> "Medium", skills |-> "Advanced"] ]

\* ClaudeAgent._parse_vulnerability_analysis: the reply is not read.
ParseVulnerabilityAnalysis(text) ==
    [ severity |-> "High",
      explanation |-> "Technical explanation of vulnerability",
      mitigations |-> <<"Mitigation 1", "Mitigation 2">>,
      long_term_fixes |-> <<"Fix 1", "Fix 2">>,
      detection_methods |-> <<"Detection 1", "Detection 2">> ]

\* The value of the vulnerability_analysis field while the key is absent.
NoAnalysis ==
    [ severity |-> "", explanation |-> "", mitigations |-> <<>>,
      long_term_fixes |-> <<>>, detection_methods |-> <<>> ]

-----------------------------------------------------------------------------
(* Scenario dicts *)

\* The dict RedTeamSimulator.generate_attack_scenario builds.  `keys` is the
\* set of optional keys present; a field whose key is absent holds a default.
\* `fed` is a history variable: the random draws the last simulate_attack on
\* this dict consumed.
NewScenario(target, inner) ==
    [ target |-> target,
      scenario |-> inner,
      status |-> "generated",
      keys |-> {},
      simulation_results |-> <<>>,
      overall_success |-> FALSE,
      vulnerability_analysis |-> NoAnalysis,
      fed |-> <<>> ]

\* Step lists of the scenarios a caller builds by hand and passes in.
StepPool == <<"recon", "exploit", "exfiltrate", "cover tracks", "persist">>
CallerStepLists == {SubSeq(StepPool, 1, n) : n \in 0..MaxSteps}

Refs == 1..Len(scenarios)

-----------------------------------------------------------------------------
(* RedTeamSimulator.simulate_attack *)

\* success = random.random() > 0.3
StepSuccess(r) == r > FailureProbability

\* A result numbered by the index of enumerate, from 0.
StepResultNumberedFromZero(i, step, success) ==
    [ step |-> i - 1,
      description |-> step,
      success |-> success,
      details |-> <<IF success THEN "Successful" ELSE "Failed", "execution of step", i - 1>> ]

\* The dict recorded for step i (1-based, as i + 1 in the code).
StepResult(i, step, success) ==
    [ step |-> i,
      description |-> step,
      success |-> success,
      details |-> <<IF success THEN "Successful" ELSE "Failed", "execution of step", i>> ]

\* A walk that starts from the results of the previous simulation.
InitialResultsKept(obj) == obj.simulation_results

\* results = []
InitialResults(obj) == <<>>

\* A walk that records the successful steps only.
RecordResultOfSuccess(results, result) ==
    IF result.success THEN Append(results, result) ELSE results

\* results.append(result)
RecordResult(results, result) == Append(results, result)

\* A break that forgets `not success`, and one that forgets the second draw.
BreaksAfterAnyStep(success, tape) == Head(tape) > StopProbability
BreaksAfterEveryFailure(success, tape) == ~success

\* if not success and random.random() > 0.5: break
\* The second draw is made only after a failed step (short-circuit `and`).
DrawsForBreak(success) == IF success THEN 0 ELSE 1
BreaksAfter(success, tape) == ~success /\ Head(tape) > StopProbability

\* The for loop over enumerate(steps), from step i on, reading its draws from
\* `tape`.  Yields the results and the number of draws consumed.
RECURSIVE SimulateSteps(_, _, _, _, _)
SimulateSteps(steps, i, tape, used, results) ==
    IF i > Len(steps) THEN [results |-> results, used |-> used]
    ELSE LET success == StepSuccess(Head(tape))
             recorded == RecordResult(results, StepResult(i, steps[i], success))
             n == DrawsForBreak(success)
         IN IF BreaksAfter(success, Tail(tape))
            THEN [results |-> recorded, used |-> used + 1 + n]
            ELSE SimulateSteps(steps, i + 1, SubSeq(tape, 2 + n, Len(tape)),
                               used + 1 + n, recorded)

\* The success of the last recorded step in place of any().
OverallSuccessOfLast(results) == Len(results) > 0 /\ results[Len(results)].success

\* any([r["success"] for r in results])
OverallSuccess(results) == \E k \in 1..Len(results) : results[k].success

\* An update that leaves the status as it was.
UpdateWithResultsKeepingStatus(obj, results, consumed) ==
    [ obj EXCEPT !.simulation_results = results,
                 !.overall_success = OverallSuccess(results),
                 !.keys = @ \cup {"simulation_results", "overall_success"},
                 !.fed = consumed ]

\* The update of the scenario dict with the results.
UpdateWithResults(obj, results, consumed) ==
    [ obj EXCEPT !.simulation_results = results,
                 !.status = "simulated",
                 !.overall_success = OverallSuccess(results),
                 !.keys = @ \cup {"simulation_results", "overall_success"},
                 !.fed = consumed ]

\* A history that holds a scenario once, however often it is simulated.
AddToHistoryUnlessPresent(history, ref) ==
    IF \E i \in 1..Len(history) : history[i] = ref THEN history ELSE Append(history, ref)

\* self.simulation_history.append(scenario): the list holds the dict itself.
AddToHistory(history, ref) == Append(history, ref)

\* The draws a walk over n steps may need: two per step.
Tapes(n) == SeqsOfLen(RandVals, 2 * n)

\* A call, the scenario it was about, how it ended ("returned", or the
\* exception it raised) and the reply of the text-generation service it read.
Op(name, ref, ret, reply) == [op |-> name, ref |-> ref, ret |-> ret, reply |-> reply]

\* A call without a scenario that falls back on the scenario built last.
ResolveToLastBuilt(arg) ==
    IF arg # None THEN arg
    ELSE IF current_scenario # None THEN current_scenario ELSE Len(scenarios)

\* scenario = scenario or self.current_scenario
Resolve(arg) == IF arg # None THEN arg ELSE current_scenario

SimulateAttack(arg, draws) ==
    LET ref == Resolve(arg) IN
    /\ UNCHANGED <<osintVars, serviceVars>>
    /\ IF ref = None
       THEN /\ lastOp' = Op("simulate_attack", None, "ValueError", "")
            /\ UNCHANGED simVars
       ELSE LET obj == scenarios[ref]
                walk == SimulateSteps(obj.scenario.steps, 1, draws, 0, InitialResults(obj))
            IN /\ scenarios' = [scenarios EXCEPT
                      ![ref] = UpdateWithResults(obj, walk.results, SubSeq(draws, 1, walk.used))]
               /\ simulation_history' = AddToHistory(simulation_history, ref)
               /\ lastOp' = Op("simulate_attack", ref, "returned", "")
               /\ UNCHANGED current_scenario

-----------------------------------------------------------------------------
(* RedTeamSimulator.generate_attack_scenario, over ClaudeAgent's *)

\* ClaudeAgent.generate_attack_scenario: the service call raises, or its
\* reply text is parsed.
GenerateAttackScenario(target, complexity, outcome) ==
    /\ UNCHANGED <<osintVars, serviceVars>>
    /\ IF outcome = ApiError
       THEN /\ lastOp' = Op("generate_attack_scenario", None, "APIError", outcome)
            /\ UNCHANGED simVars
       ELSE /\ scenarios' = Append(scenarios, NewScenario(target, ParseAttackScenario(outcome)))
            /\ current_scenario' = Len(scenarios) + 1
            /\ lastOp' = Op("generate_attack_scenario", Len(scenarios) + 1, "returned", outcome)
            /\ UNCHANGED simulation_history

\* A caller builds a scenario dict by hand, to pass it to simulate_attack.
CallerBuildsScenario(target, steps) ==
    /\ UNCHANGED <<osintVars, serviceVars>>
    /\ scenarios' = Append(scenarios,
           NewScenario(target, [ParseAttackScenario("") EXCEPT !.steps = steps]))
    /\ lastOp' = Op("caller_builds", Len(scenarios) + 1, "returned", "")
    /\ UNCHANGED <<current_scenario, simulation_history>>

-----------------------------------------------------------------------------
(* RedTeamSimulator.analyze_vulnerability *)

AnalyzeVulnerability(arg, outcome) ==
    LET ref == Resolve(arg) IN
    /\ UNCHANGED <<osintVars, serviceVars>>
    /\ IF ref = None
       THEN /\ lastOp' = Op("analyze_vulnerability", None, "ValueError", "")
            /\ UNCHANGED simVars
       ELSE IF outcome = ApiError
       THEN /\ lastOp' = Op("analyze_vulnerability", ref, "APIError", "")
            /\ UNCHANGED simVars
       ELSE /\ scenarios' = [scenarios EXCEPT
                   ![ref] = [@ EXCEPT !.vulnerability_analysis = ParseVulnerabilityAnalysis(outcome),
                                      !.status = "analyzed",
                                      !.keys = @ \cup {"vulnerability_analysis"}]]
            /\ lastOp' = Op("analyze_vulnerability", ref, "returned", "")
            /\ UNCHANGED <<current_scenario, simulation_history>>

-----------------------------------------------------------------------------
(* OSINTCollector: records, files and the dataset source *)

\* dict.get(key): None when the key is absent.
Get(rec, k) == IF k \in DOMAIN rec THEN rec[k] ELSE Null

\* {**a, **b}: on a key of both, b's value wins.
Merge(a, b) == b @@ a

\* The list a loop builds by appending f[1], f[2], ... in turn.
List(f) == SubSeq(f, 1, Len(f))

\* The whole list, whatever the limit.
TakeWhole(list, limit) == list

\* list[:limit], limit >= 0
Take(list, limit) == SubSeq(list, 1, IF limit < Len(list) THEN limit ELSE Len(list))

Digits == <<"0", "1", "2", "3", "4", "5", "6", "7", "8", "9">>

\* str(n), n >= 0
RECURSIVE ToStr(_)
ToStr(n) == IF n < 10 THEN Digits[n + 1] ELSE ToStr(n \div 10) \o Digits[(n % 10) + 1]

\* The elements of a set of integers in ascending order.
RECURSIVE SortedSeq(_)
SortedSeq(S) ==
    IF S = {} THEN <<>>
    ELSE LET m == CHOOSE x \in S : \A y \in S : x <= y
         IN <<m>> \o SortedSeq(S \ {m})

\* A value with its Python type, where the type decides what the code does.
Val(ty, v) == [ty |-> ty, v |-> v]

\* The outcomes of the random module: one per seed.
Seeds == 0..MaxSeed

\* The indicator words that the lower-cased string contains.
WordsIn(str) ==
    CASE str = "Cargo" -> {"cargo"}
      [] str = "Tanker" -> {"tanker"}
      [] str = "Passenger" -> {"passenger"}
      [] str = "Fishing" -> {"fishing"}
      [] str = "Military" -> {"military"}
      [] str = "Law Enforcement" -> {"law enforcement"}
      [] str = "Tug" -> {"tug"}
      [] str = "NAVY TUG" -> {"navy", "tug"}
      [] str = "Unknown" -> {"unknown"}
      [] OTHER -> {}

\* OSINTCollector._determine_vessel_type_from_name: the first indicator, in
\* the order of type_indicators, that the name contains.
TypeIndicators ==
    << <<"tanker", "Tanker">>, <<"cargo", "Cargo">>, <<"container", "Container Ship">>,
       <<"bulk", "Bulk Carrier">>, <<"cruise", "Passenger">>, <<"ferry", "Passenger">>,
       <<"fishing", "Fishing">>, <<"tug", "Tug">>, <<"yacht", "Pleasure Craft">>,
       <<"supply", "Supply Vessel">>, <<"research", "Research Vessel">>,
       <<"navy", "Military">>, <<"coast guard", "Law Enforcement">> >>

DetermineVesselTypeFromName(name) ==
    LET hits == {i \in 1..Len(TypeIndicators) : TypeIndicators[i][1] \in WordsIn(name)}
    IN IF hits = {} THEN "Unknown"
       ELSE TypeIndicators[CHOOSE i \in hits : \A j \in hits : i <= j][2]

\* OSINTCollector._determine_vessel_systems
BaseSystems == <<"navigation", "communication", "engine_control">>
DetermineVesselSystems(type) ==
    LET w == WordsIn(type) IN
    IF "cargo" \in w \/ "tanker" \in w
    THEN BaseSystems \o <<"cargo_management", "ballast_management">>
    ELSE IF "passenger" \in w \/ "cruise" \in w
    THEN BaseSystems \o <<"passenger_management", "entertainment_systems">>
    ELSE IF "military" \in w \/ "law enforcement" \in w
    THEN BaseSystems \o <<"weapons_systems", "surveillance_systems">>
    ELSE IF "fishing" \in w
    THEN BaseSystems \o <<"fishing_equipment", "refrigeration_systems">>
    ELSE BaseSystems \o <<"crew_systems">>

\* OSINTCollector._determine_security_level_from_type
DetermineSecurityLevelFromType(type) ==
    LET w == WordsIn(type) IN
    IF "military" \in w \/ "law enforcement" \in w THEN "high"
    ELSE IF "passenger" \in w \/ "cruise" \in w \/ "tanker" \in w THEN "medium"
    ELSE "low"

-----------------------------------------------------------------------------
(* The AIS dataset: CSV files and their processing *)

\* A CSV file as pandas reads it: the columns and the rows, or a file
\* pd.read_csv raises on.  Position, speed and course columns are left out.
Table(cols, rows) == [readable |-> TRUE, cols |-> cols, rows |-> rows]
UnreadableTable == [readable |-> FALSE, cols |-> {}, rows |-> <<>>]

\* A row: Length is an integer column (numpy.int64 values); Flag is a string
\* column, or a boolean one (numpy.bool_ values).
AisRow(mmsi, name, type, time, length, flag) ==
    [ MMSI |-> mmsi, VesselName |-> name, VesselType |-> type, BaseDateTime |-> time,
      Length |-> Val("np.int64", length), Flag |-> flag ]
AisCols == {"MMSI", "VesselName", "VesselType", "BaseDateTime", "Length", "Flag"}

\* OSINTCollector._create_sample_ais_data: five fixed vessels and
\* num_extra_vessels random ones.
NumExtraVessels == 20
SampleVesselTypes ==
    <<"Cargo", "Tanker", "Passenger", "Fishing", "Pleasure Craft", "Tug", "Military",
      "SAR", "Law Enforcement">>
SampleFlags ==
    <<"Panama", "Marshall Islands", "Liberia", "USA", "Bahamas", "Singapore", "Malta",
      "China", "Greece", "Japan">>
CreateSampleAisData(seed) ==
    Table(AisCols,
        << AisRow(123456789, "BLUE MARLIN", "Cargo", 830, 250, Val("str", "Panama")),
           AisRow(234567890, "OCEAN TRADER", "Tanker", 915, 320, Val("str", "Marshall Islands")),
           AisRow(345678901, "PACIFIC VOYAGER", "Passenger", 1045, 180, Val("str", "Liberia")),
           AisRow(456789012, "NORTHERN STAR", "Fishing", 1120, 85, Val("str", "USA")),
           AisRow(567890123, "GOLDEN HORIZON", "Pleasure Craft", 1205, 40, Val("str", "Bahamas")) >>
        \o [ i \in 1..NumExtraVessels |->
               AisRow(100000000 + 1000 * seed + i, "OCEAN STAR",
                      SampleVesselTypes[((seed + i) % Len(SampleVesselTypes)) + 1],
                      i, 30 + i,
                      Val("str", SampleFlags[((seed + i) % Len(SampleFlags)) + 1])) ])

\* Datasets the source may hold: two reports of one vessel and one of
\* another; a header with no rows; a file without the expected columns; a
\* file with a boolean column; a file pandas cannot read.
TwoVesselTable ==
    Table(AisCols,
        << AisRow(2, "OCEAN TRADER", "Tanker", 1, 320, Val("str", "Panama")),
           AisRow(1, "NAVY TUG", "Unknown", 2, 40, Val("str", "USA")),
           AisRow(2, "OCEAN TRADER", "Tanker", 3, 320, Val("str", "Liberia")) >>)
HeaderOnlyTable == Table(AisCols, <<>>)
ForeignColumnsTable == Table({"Name"}, <<[Name |-> "a"], [Name |-> "b"]>>)
BooleanFlagTable ==
    Table(AisCols, <<AisRow(3, "BLUE MARLIN", "Cargo", 1, 250, Val("np.bool_", "True"))>>)

CsvFile(stem, table) == [stem |-> stem, ext |-> "csv", table |-> table]
ReadmeFile == [stem |-> "README", ext |-> "md", table |-> UnreadableTable]

\* What kagglehub does and what the downloaded path holds.
DownloadOutcomes ==
    { [kaggle |-> "api_error", files |-> <<>>],
      [kaggle |-> "path_missing", files |-> <<>>],
      [kaggle |-> "listing_error", files |-> <<>>],
      [kaggle |-> "directory", files |-> <<>>],
      [kaggle |-> "directory", files |-> <<ReadmeFile>>],
      [kaggle |-> "directory", files |-> <<ReadmeFile, CsvFile("ais", TwoVesselTable)>>],
      [kaggle |-> "directory", files |-> <<CsvFile("ais", HeaderOnlyTable)>>],
      [kaggle |-> "file", files |-> <<CsvFile("ais", ForeignColumnsTable)>>],
      [kaggle |-> "file", files |-> <<CsvFile("ais", BooleanFlagTable)>>],
      [kaggle |-> "file", files |-> <<CsvFile("ais", UnreadableTable)>>] }

\* OSINTCollector._download_kaggle_ais_dataset: the files of the dataset.
DownloadKaggleAisDataset(dl, seed) ==
    IF dl.kaggle = "listing_error"
    THEN <<CsvFile("fallback_ais_data", CreateSampleAisData(seed))>>
    ELSE IF dl.kaggle \in {"api_error", "path_missing"}
    THEN <<CsvFile("sample_ais_data", CreateSampleAisData(seed))>>
    ELSE dl.files

\* The groups of df.groupby('MMSI'), or of df.groupby(df.index) without the
\* column, in ascending key order.
GroupKeys(t) ==
    IF "MMSI" \in t.cols THEN {t.rows[i].MMSI : i \in 1..Len(t.rows)}
    ELSE 0..(Len(t.rows) - 1)
GroupRows(t, key) ==
    IF "MMSI" \in t.cols THEN {i \in 1..Len(t.rows) : t.rows[i].MMSI = key}
    ELSE {key + 1}

\* The most recent row of the group, or its first row without BaseDateTime.
LatestRow(t, key) ==
    LET g == GroupRows(t, key)
        first == CHOOSE i \in g : \A j \in g : i <= j
    IN IF "BaseDateTime" \in t.cols
       THEN t.rows[CHOOSE i \in g : \A j \in g :
                       \/ t.rows[j].BaseDateTime < t.rows[i].BaseDateTime
                       \/ t.rows[j].BaseDateTime = t.rows[i].BaseDateTime /\ i <= j]
       ELSE t.rows[first]

\* The optional fields copied when the dataset has their column (of the
\* eight in the code, the two the datasets of the model carry).
OptionalFields == <<<<"length", "Length">>, <<"flag", "Flag">>>>
TypedKeys == {OptionalFields[i][1] : i \in 1..Len(OptionalFields)}
ColumnOf(field) ==
    OptionalFields[CHOOSE i \in 1..Len(OptionalFields) : OptionalFields[i][1] = field][2]

\* The vessel_data dict built from the latest row of a group.
VesselFromRow(key, latest) ==
    LET name == IF "VesselName" \in DOMAIN latest THEN latest.VesselName
                ELSE "VESSEL_" \o ToStr(key)
        given == IF "VesselType" \in DOMAIN latest THEN latest.VesselType ELSE ""
        type == IF given = "" \/ "unknown" \in WordsIn(given)
                THEN DetermineVesselTypeFromName(name) ELSE given
        optional == [f \in {g \in TypedKeys : ColumnOf(g) \in DOMAIN latest} |->
                        latest[ColumnOf(f)]]
    IN Merge([ mmsi |-> ToStr(key), vessel_name |-> name, vessel_type |-> type ],
             Merge(optional,
                   [ systems |-> DetermineVesselSystems(type),
                     security_level |-> DetermineSecurityLevelFromType(type) ]))

\* The vessels list: one vessel per group.
ProcessDataset(t) ==
    LET keys == SortedSeq(GroupKeys(t))
    IN List([i \in 1..Len(keys) |-> VesselFromRow(keys[i], LatestRow(t, keys[i]))])

\* The conversion to native types: numpy.int64 to int, numpy.float64 to
\* float, anything else as it is.
SerializableVessel(vessel) ==
    [k \in DOMAIN vessel |->
        IF k \in TypedKeys /\ vessel[k].ty \in {"np.int64", "np.float64"}
        THEN Val(IF vessel[k].ty = "np.float64" THEN "float" ELSE "int", vessel[k].v)
        ELSE vessel[k]]
SerializableVessels(vessels) ==
    List([i \in 1..Len(vessels) |-> SerializableVessel(vessels[i])])

\* json.dump succeeds on native values only.
JsonTypes == {"int", "float", "str"}
JsonDumps(records) ==
    \A i \in 1..Len(records) : \A k \in TypedKeys \cap DOMAIN records[i] :
        records[i][k].ty \in JsonTypes

\* OSINTCollector._generate_simulated_vessels
SimulatedVesselTypes == <<"Cargo", "Tanker", "Passenger", "Military", "Fishing">>
SecurityLevels == <<"low", "medium", "high">>
SimulatedSystems == <<"navigation", "communication", "cargo_management">>
GenerateSimulatedVessels(limit, seed) ==
    List([ i \in 1..limit |->
        [ mmsi |-> ToStr(900000000 + 1000 * seed + i),
          imo |-> "IMO" \o ToStr(9000000 + 1000 * seed + i),
          vessel_name |-> "VESSEL" \o ToStr(1000 + 100 * seed + i),
          vessel_type |-> SimulatedVesselTypes[((seed + i) % Len(SimulatedVesselTypes)) + 1],
          length |-> Val("int", 50 + i),
          systems |-> SimulatedSystems,
          security_level |-> SecurityLevels[((seed + i) % Len(SecurityLevels)) + 1] ] ])

\* The cache file: absent, unparsable, or a JSON list.
AbsentFile == [kind |-> "absent", data |-> <<>>]
CorruptFile == [kind |-> "corrupt", data |-> <<>>]
ListFile(records) == [kind |-> "list", data |-> records]

\* A file with the seconds since it was last written (os.path.getmtime).
AgedFile(file, age) == [kind |-> file.kind, data |-> file.data, age |-> age]

IsCsv(f) == f.ext = "csv"

Outcome(cache, ret, value, failures, queried) ==
    [cache |-> cache, ret |-> ret, value |-> value, failures |-> failures, queried |-> queried]

CacheTtl == 86400            \* seconds a cached facility list stays fresh

\* The vessel cache is used when it exists and parses, whatever its age.
VesselCacheUsableWhileFresh(file) == file.kind = "list" /\ file.age < CacheTtl
VesselCacheUsable(file) == file.kind = "list"

\* The part of collect_ais_data that reads neither the cache file nor the
\* limit: the download, the choice of the CSV file, its processing and the
\* conversion for the cache file.  stage is how far it got.
FetchDataset(dl, seed) ==
    LET files == DownloadKaggleAisDataset(dl, seed)
        csv_files == SelectSeq(files, IsCsv)
        stopped(stage) == [stage |-> stage, vessels |-> <<>>, written |-> <<>>, failures |-> {}]
    IN IF files = <<>> THEN stopped("no_files")
       ELSE IF csv_files = <<>> THEN stopped("no_csv")
       ELSE IF ~csv_files[1].table.readable THEN stopped("unreadable_csv")
       ELSE
       LET t == csv_files[1].table
           missing == IF AisCols \subseteq t.cols THEN {} ELSE {"missing_columns"}
           vessels == ProcessDataset(t)
           serializable_vessels == SerializableVessels(vessels)
       IN [ stage |-> IF JsonDumps(serializable_vessels) THEN "cached" ELSE "dump_error",
            vessels |-> vessels, written |-> serializable_vessels, failures |-> missing ]

\* FetchDataset, worked out once for every dataset and seed.
Fetched == [dl \in DownloadOutcomes, seed \in Seeds |-> FetchDataset(dl, seed)]

\* OSINTCollector.collect_ais_data: the cache file it leaves, what it returns
\* and the failures it met.
CollectAis(limit, dl, seed) ==
    IF VesselCacheUsable(aisCache)
    THEN Outcome(aisCache, "returned", Take(aisCache.data, limit), {}, FALSE)
    ELSE
    LET met == (IF aisCache.kind = "corrupt" THEN {"malformed_cache"} ELSE {})
               \cup (IF dl.kaggle \in {"api_error", "listing_error"}
                     THEN {"download_error"} ELSE {})
        f == Fetched[dl, seed]
        simulated == GenerateSimulatedVessels(limit, seed)
    IN IF f.stage = "cached"
       THEN Outcome(AgedFile(ListFile(f.written), 0), "returned", Take(f.vessels, limit),
                    met \cup f.failures, TRUE)
       ELSE IF f.stage = "dump_error"
       THEN Outcome(AgedFile(CorruptFile, 0), "returned", simulated,
                    met \cup f.failures \cup {"dump_error"}, TRUE)
       ELSE Outcome(AgedFile(AbsentFile, 0), "returned", simulated,
                    met \cup {f.stage}, TRUE)

-----------------------------------------------------------------------------
(* The infrastructure data *)

Country == "US"              \* the default country, which every caller uses

Sizes == <<"Small", "Medium", "Large">>
FacilityTypes ==
    <<"Power Plant", "Water Treatment", "Transportation Hub", "Data Center",
      "Government Facility">>

Facility(id, name, type, systems, seed, i, country) ==
    [ id |-> id, name |-> name, type |-> type,
      size |-> Sizes[((seed + i) % Len(Sizes)) + 1],
      security_level |-> SecurityLevels[((seed + 2 * i) % Len(SecurityLevels)) + 1],
      systems |-> systems, country |-> country ]

\* The systems given to a facility of real_facilities.
RealSystems(type) ==
    CASE type = "Power Plant" ->
           <<"SCADA", "Physical Security", "IT Network", "Employee Access", "Power Distribution">>
      [] type = "Transportation Hub" ->
           <<"Air Traffic Control", "Physical Security", "IT Network", "Employee Access",
             "Passenger Management">>
      [] type = "Data Center" ->
           <<"Cooling Systems", "Physical Security", "IT Network", "Employee Access",
             "Power Management">>
      [] type = "Government Facility" ->
           <<"Access Control", "Physical Security", "IT Network", "Employee Access",
             "Communications">>
      [] OTHER -> <<"SCADA", "Physical Security", "IT Network", "Employee Access">>

RealFacilities ==
    << <<"FAC10001", "Hoover Dam", "Power Plant">>,
       <<"FAC10002", "Three Mile Island", "Power Plant">>,
       <<"FAC10003", "O'Hare International Airport", "Transportation Hub">>,
       <<"FAC10004", "Raven Rock Mountain Complex", "Government Facility">>,
       <<"FAC10005", "Ashburn Data Center Alley", "Data Center">> >>

EnrichedFacilities(seed) ==
    List([ i \in 1..Len(RealFacilities) |->
        Facility(RealFacilities[i][1], RealFacilities[i][2], RealFacilities[i][3],
                 RealSystems(RealFacilities[i][3]), seed, i, "US") ])

\* The systems and the name given to a simulated facility.
SimulatedSystemsOf(type) ==
    CASE type = "Power Plant" ->
           <<"SCADA", "Physical Security", "IT Network", "Employee Access", "Power Distribution">>
      [] type = "Water Treatment" ->
           <<"SCADA", "Physical Security", "IT Network", "Employee Access",
             "Chemical Management">>
      [] type = "Transportation Hub" ->
           <<"Traffic Management", "Physical Security", "IT Network", "Employee Access",
             "Passenger Management">>
      [] type = "Data Center" ->
           <<"Cooling Systems", "Physical Security", "IT Network", "Employee Access",
             "Power Management">>
      [] OTHER ->
           <<"Access Control", "Physical Security", "IT Network", "Employee Access",
             "Communications">>
SimulatedNameOf(type) ==
    CASE type = "Power Plant" -> "Grand Power Plant"
      [] type = "Water Treatment" -> "City Water Plant"
      [] type = "Transportation Hub" -> "International Airport"
      [] type = "Data Center" -> "Secure Data Center"
      [] OTHER -> "Federal Operations Center"

\* The i-th facility of a list, generated at random.
SimulatedFacility(seed, i, country) ==
    LET type == FacilityTypes[((seed + i) % Len(FacilityTypes)) + 1]
    IN Facility("FAC" \o ToStr(20000 + 1000 * seed + i), SimulatedNameOf(type), type,
                SimulatedSystemsOf(type), seed, i, country)

\* The try block: the real facilities, then simulated ones while the list is
\* shorter than limit.
FetchedFacilities(country, limit, seed) ==
    LET real == EnrichedFacilities(seed)
    IN real \o [ i \in 1..(IF limit > Len(real) THEN limit - Len(real) ELSE 0) |->
                   SimulatedFacility(seed, Len(real) + i, country) ]

\* The except block: limit simulated facilities.
FallbackFacilities(country, limit, seed) ==
    List([ i \in 1..limit |-> SimulatedFacility(seed, i, country) ])


\* What writing the cache file does: both writes succeed, the one of the try
\* block fails, or both fail.
WriteOutcomes == {"ok", "first_write_fails", "writes_fail"}

\* The facility cache is read when it exists and is younger than CacheTtl.
FacilityCacheRead(file) == file.kind # "absent" /\ file.age < CacheTtl

\* OSINTCollector.collect_infrastructure_data
CollectInfrastructure(country, limit, io, seed) ==
    IF FacilityCacheRead(infraCache)
    THEN IF infraCache.kind = "corrupt"
         THEN Outcome(infraCache, "JSONDecodeError", <<>>, {"malformed_cache"}, FALSE)
         ELSE Outcome(infraCache, "returned", infraCache.data, {}, FALSE)
    ELSE IF io = "ok"
    THEN LET facilities == FetchedFacilities(country, limit, seed)
         IN Outcome(AgedFile(ListFile(facilities), 0), "returned", facilities, {}, TRUE)
    ELSE IF io = "first_write_fails"
    THEN LET facilities == FallbackFacilities(country, limit, seed)
         IN Outcome(AgedFile(ListFile(facilities), 0), "returned", facilities,
                    {"write_error"}, TRUE)
    ELSE Outcome(infraCache, "OSError", <<>>, {"write_error"}, TRUE)

-----------------------------------------------------------------------------
(* RedTeamSimulator.load_target_from_osint *)

LoadLimit == 20              \* the limit load_target_from_osint collects with
DefaultLimit == 10           \* the default limit of both collectors

\* Whether the record carries the identifier.
Matches(target_type, record, target_id) ==
    IF target_type = "maritime"
    THEN Get(record, "mmsi") = target_id \/ Get(record, "imo") = target_id
    ELSE Get(record, "id") = target_id

\* random.choice(records): IndexError on an empty list.
RandomChoice(records, pick) == records[(pick % Len(records)) + 1]

\* What the call returns, from the outcome c of the collector it called:
\* the first matching record, else a random one, with the key "type" put
\* first, so that the record's own "type" replaces it.
LoadTarget(target_type, target_id, c, pick) ==
    LET kind == IF target_type = "maritime" THEN "maritime" ELSE "infrastructure"
        records == c.value
        hits == {i \in 1..Len(records) : Matches(target_type, records[i], target_id)}
        found == target_id \notin {Null, ""} /\ hits # {}
        chosen == IF found THEN records[CHOOSE i \in hits : \A j \in hits : i <= j]
                  ELSE RandomChoice(records, pick)
    IN IF c.ret # "returned" THEN [ret |-> c.ret, value |-> <<>>, found |-> FALSE]
       ELSE IF ~found /\ records = <<>>
       THEN [ret |-> "IndexError", value |-> <<>>, found |-> FALSE]
       ELSE [ret |-> "returned", value |-> <<Merge([type |-> kind], chosen)>>,
             found |-> found]

-----------------------------------------------------------------------------
(* Calls of the target provider, and what happens to its files between them *)

\* The last call: its arguments, how it ended (ret), the records returned
\* (value; one record for load_target_from_osint), the record set the
\* collector handed over (fetched), whether an identifier matched (found),
\* the failures met, whether the data source was queried, and the cache
\* file of the requested kind as the call found it (cache_before) and as it
\* left it (cache_after).
OsintOp(name, target_type, target_id, limit, ret, value, c, found) ==
    [ op |-> name, target_type |-> target_type, target_id |-> target_id, limit |-> limit,
      ret |-> ret, value |-> value, fetched |-> c.value, found |-> found,
      failures |-> c.failures, queried |-> c.queried,
      cache_before |-> IF target_type = "maritime" THEN aisCache ELSE infraCache,
      cache_after |-> c.cache ]

NoOutcome == Outcome(AgedFile(AbsentFile, 0), "returned", <<>>, {}, FALSE)

Limits == {1, DefaultLimit}
NoDownload == [kaggle |-> "directory", files |-> <<>>]
TargetIds == {Null, "1", "IMO9000001", "FAC10003", "no-such-id"}
Picks == 0..1

CollectAisData(limit, dl, seed) ==
    \E c \in {CollectAis(limit, dl, seed)} :
        /\ aisCache' = c.cache
        /\ osintOp' = OsintOp("collect_ais_data", "maritime", Null, limit,
                              c.ret, c.value, c, FALSE)
        /\ UNCHANGED <<infraCache, simulatorVars, serviceVars>>

CollectInfrastructureData(country, limit, io, seed) ==
    \E c \in {CollectInfrastructure(country, limit, io, seed)} :
        /\ infraCache' = c.cache
        /\ osintOp' = OsintOp("collect_infrastructure_data", "infrastructure", Null, limit,
                              c.ret, c.value, c, FALSE)
        /\ UNCHANGED <<aisCache, simulatorVars, serviceVars>>

\* The collector called depends on target_type alone; dl is what the AIS
\* download does and io what writing the facility cache does.
LoadTargetFromOsint(target_type, target_id, dl, io, seed, pick) ==
    \E c \in {IF target_type = "maritime" THEN CollectAis(LoadLimit, dl, seed)
               ELSE CollectInfrastructure(Country, LoadLimit, io, seed)} :
    \E r \in {LoadTarget(target_type, target_id, c, pick)} :
        /\ aisCache' = IF target_type = "maritime" THEN c.cache ELSE aisCache
        /\ infraCache' = IF target_type = "maritime" THEN infraCache ELSE c.cache
        /\ osintOp' = OsintOp("load_target_from_osint", target_type, target_id, LoadLimit,
                              r.ret, r.value, c, r.found)
        /\ UNCHANGED <<simulatorVars, serviceVars>>

\* The cache files are ordinary files: an interrupted write or another
\* program leaves one unparsable.
AisCacheDamaged ==
    /\ aisCache.kind = "list"
    /\ aisCache' = AgedFile(CorruptFile, aisCache.age)
    /\ UNCHANGED <<infraCache, osintOp, simulatorVars, serviceVars>>

InfraCacheDamaged ==
    /\ infraCache.kind = "list"
    /\ infraCache' = AgedFile(CorruptFile, infraCache.age)
    /\ UNCHANGED <<aisCache, osintOp, simulatorVars, serviceVars>>

\* Time passes: every cache file that exists goes from fresh to one second
\* short of the freshness window, then to the window.
Older(file) ==
    IF file.kind = "absent" \/ file.age >= CacheTtl THEN file
    ELSE AgedFile(file, IF file.age < CacheTtl - 1 THEN CacheTtl - 1 ELSE CacheTtl)

TimePasses ==
    /\ Older(aisCache) # aisCache \/ Older(infraCache) # infraCache
    /\ aisCache' = Older(aisCache)
    /\ infraCache' = Older(infraCache)
    /\ UNCHANGED <<osintOp, simulatorVars, serviceVars>>

-----------------------------------------------------------------------------
(* RedTeamSimulator.save_results *)

\* A save that empties the history once it is on disk.
HistoryAfterSaveCleared(history) == <<>>

\* save_results assigns nothing to self.simulation_history.
HistoryAfterSave(history) == history

\* The file once written: json.dump of the list of the dicts the history
\* refers to.
SavedFile(filename) ==
    [ kind |-> "list",
      data |-> [i \in 1..Len(simulation_history) |-> scenarios[simulation_history[i]]],
      name |-> IF filename \in {Null, ""} THEN "simulation_results_<timestamp>.json"
               ELSE filename ]

NoSavedFile == [kind |-> "absent", data |-> <<>>, name |-> Null]

\* io is what open(filepath, "w") does: "ok", or "open_fails" when the
\* directory data/scenarios is missing or not writable.
SaveOutcomes == {"ok", "open_fails"}
Filenames == {Null, "results.json"}

SaveResults(filename, io) ==
    /\ IF simulation_history = <<>>
       THEN /\ lastOp' = Op("save_results", None, "ValueError", "")
            /\ UNCHANGED <<simVars, results_file>>
       ELSE IF io = "open_fails"
       THEN /\ lastOp' = Op("save_results", None, "OSError", "")
            /\ UNCHANGED <<simVars, results_file>>
       ELSE /\ results_file' = SavedFile(filename)
            /\ simulation_history' = HistoryAfterSave(simulation_history)
            /\ lastOp' = Op("save_results", None, "returned", "")
            /\ UNCHANGED <<scenarios, current_scenario>>
    /\ UNCHANGED <<system_details, osintVars, historyAnalysis, simulation_results, response, requests>>

-----------------------------------------------------------------------------
(* ClaudeAgent.analyze_simulation_results: the section splitter *)

MaxLines == 3          \* longest reply, in lines

\* A string is a sequence of pieces: the prefix "- ", a heading phrase, a run
\* of blanks, a line end, or other text.  `phrase in line` is the presence of
\* the phrase among the pieces of the line.
Dash == "- "
Blank == " "
LineEnd == "\n"

\* The phrases tested, in the order of the if/elif chain, each with the
\* section it opens.
Headings ==
    << <<"Key Findings", "key_findings">>,
       <<"Attack Pattern", "attack_patterns">>,
       <<"Critical Vulnerabilities", "critical_vulnerabilities">>,
       <<"Defense Recommendations", "recommendations">>,
       <<"Risk Assessment", "risk_assessment">> >>

SectionNames == {Headings[i][2] : i \in 1..Len(Headings)}

Contains(line, phrase) == \E k \in 1..Len(line) : line[k] = phrase

\* A chain that lets the last phrase it tests win.
HeadingOfLastInChain(line) ==
    LET hits == {i \in 1..Len(Headings) : Contains(line, Headings[i][1])}
    IN IF hits = {} THEN Null
       ELSE Headings[CHOOSE i \in hits : \A j \in hits : j <= i][2]

\* The section the line opens: that of the first phrase of the chain that
\* the line contains; Null when it contains none.
HeadingOf(line) ==
    LET hits == {i \in 1..Len(Headings) : Contains(line, Headings[i][1])}
    IN IF hits = {} THEN Null
       ELSE Headings[CHOOSE i \in hits : \A j \in hits : i <= j][2]

\* line.strip() is not empty
StripNonEmpty(line) == \E k \in 1..Len(line) : line[k] # Blank

\* line.startswith("- ") and line[2:]
StartsWithDash(line) == Len(line) > 0 /\ line[1] = Dash
AfterDash(line) == Tail(line)

\* A splitter that starts inside the first section.
SplitStartInFirstSection ==
    [ current_section |-> "key_findings",
      sections |-> [key_findings |-> <<>>, attack_patterns |-> <<>>,
                    critical_vulnerabilities |-> <<>>, recommendations |-> <<>>,
                    risk_assessment |-> <<>>],
      origin |-> [n \in SectionNames |-> <<>>] ]

\* sections and current_section before the loop.  risk_assessment is a
\* string, the other sections are lists of strings.  `origin` is a history
\* variable: for each section, the positions in the reply of the lines that
\* were put in it, in order.
SplitStart ==
    [ current_section |-> Null,
      sections |-> [key_findings |-> <<>>, attack_patterns |-> <<>>,
                    critical_vulnerabilities |-> <<>>, recommendations |-> <<>>,
                    risk_assessment |-> <<>>],
      origin |-> [n \in SectionNames |-> <<>>] ]

\* One pass of the loop body, on line i of the reply.
SplitLine(st, line, i) ==
    LET heading == HeadingOf(line)
        current_section == st.current_section
    IN IF heading # Null THEN [st EXCEPT !.current_section = heading]
       ELSE IF current_section # Null /\ StripNonEmpty(line)
       THEN IF current_section = "risk_assessment"
            THEN [st EXCEPT !.sections.risk_assessment = @ \o line \o <<LineEnd>>,
                            !.origin.risk_assessment = Append(@, i)]
            ELSE IF StartsWithDash(line)
            THEN [st EXCEPT !.sections[current_section] = Append(@, AfterDash(line)),
                            !.origin[current_section] = Append(@, i)]
            ELSE st
       ELSE st

\* for line in analysis.split('\n')
RECURSIVE SplitLines(_, _, _)
SplitLines(st, lines, i) ==
    IF i > Len(lines) THEN st
    ELSE SplitLines(SplitLine(st, lines[i], i), lines, i + 1)

\* Lines of the replies: empty, blank, plain text, a list item, a list item
\* that mentions a heading phrase, a list item that mentions two, and the
\* five headings as the prompt numbers them.
ReplyLines ==
    { <<>>, <<Blank>>, <<"Overview">>, <<Dash, "item">>,
      <<Dash, "repeat the ", "Risk Assessment", " yearly">>,
      <<Dash, "Risk Assessment", " of the ", "Key Findings">>,
      <<"1. ", "Key Findings">>, <<"2. ", "Attack Pattern", " Analysis">>,
      <<"3. ", "Critical Vulnerabilities">>, <<"4. ", "Defense Recommendations">>,
      <<"5. ", "Risk Assessment">> }

AnalysisReplies == UNION {SeqsOfLen(ReplyLines, n) : n \in 0..MaxLines}

\* The service call raises, or returns a reply.
AnalysisOutcomes ==
    {[raised |-> TRUE, text |-> <<>>]} \cup {[raised |-> FALSE, text |-> r] : r \in AnalysisReplies}

\* What the call returns ("error": the dict with the key error, "analysis":
\* the dict with the sections) or the exception it raises, with the list it
\* was given, whether the service was called and the reply it read.
HistoryAnalysis(name, results, ret, error, st, raw_analysis, called) ==
    [ op |-> name, given |-> results, ret |-> ret, error |-> error,
      analysis |-> st.sections, origin |-> st.origin, raw_analysis |-> raw_analysis,
      called |-> called ]

\* json.dumps(simulation_results, indent=2) in the f-string of the prompt:
\* it succeeds when the target of every scenario holds native values only.
PromptBuilt(results) ==
    \A i \in 1..Len(results) : JsonDumps(<<results[i].target>>)

\* ClaudeAgent.analyze_simulation_results, for the list given and the
\* outcome of the service call.  The prompt is built before the try block.
AnalysisOf(results, outcome) ==
    IF results = <<>>
    THEN HistoryAnalysis("analyze_simulation_results", results, "error",
                         "No simulation results to analyze", SplitStart, <<>>, FALSE)
    ELSE IF ~PromptBuilt(results)
    THEN HistoryAnalysis("analyze_simulation_results", results, "TypeError",
                         Null, SplitStart, <<>>, FALSE)
    ELSE IF outcome.raised
    THEN HistoryAnalysis("analyze_simulation_results", results, "error",
                         "Error analyzing results", SplitStart, <<>>, TRUE)
    ELSE HistoryAnalysis("analyze_simulation_results", results, "analysis", Null,
                         SplitLines(SplitStart, outcome.text, 1), outcome.text, TRUE)

AnalyzeSimulationResults(results, outcome) ==
    /\ historyAnalysis' = AnalysisOf(results, outcome)
    /\ UNCHANGED <<system_details, simulatorVars, osintVars, results_file, simulation_results,
                   response, requests>>

-----------------------------------------------------------------------------
(* app.py: the routes /api/simulate and /api/search *)

MaxRequests == 2       \* /api/simulate requests of a behaviour

\* A JSON value with its Python type; v is a dict's content, a string's text.
NoneValue == [ty |-> "NoneType", v |-> <<>>]
StrValue(text) == [ty |-> "str", v |-> [text |-> text]]
DictValue(content) == [ty |-> "dict", v |-> content]

\* `not x`: None, the empty string and the empty dict are false.
Truthy(x) ==
    CASE x.ty = "NoneType" -> FALSE
      [] x.ty = "str" -> x.v.text # ""
      [] x.ty = "dict" -> DOMAIN x.v # {}

\* request.json: None, or a dict with the keys given.
Body(present, keys, target, complexity) ==
    [present |-> present, keys |-> keys, target |-> target, complexity |-> complexity]

VesselTarget ==
    DictValue([type |-> "maritime", id |-> "123", systems |-> <<"navigation", "communication">>])
FacilityTarget ==
    DictValue([type |-> "infrastructure", id |-> "FAC10003", systems |-> <<"SCADA">>])

\* The bodies posted: none, an empty object, an object without a target, with
\* an empty target, with a target that is a string, and with a target object.
Bodies ==
    { Body(FALSE, {}, NoneValue, Null),
      Body(TRUE, {}, NoneValue, Null),
      Body(TRUE, {"complexity"}, NoneValue, "high"),
      Body(TRUE, {"target"}, DictValue(<<>>), Null),
      Body(TRUE, {"target"}, StrValue("IMO9000001"), Null),
      Body(TRUE, {"target"}, VesselTarget, Null),
      Body(TRUE, {"target", "complexity"}, FacilityTarget, "high") }

\* The objects the requests of a process share: the simulator's fields and
\* the list simulation_results of app.py.
Process ==
    [ scenarios |-> scenarios, current_scenario |-> current_scenario,
      simulation_history |-> simulation_history,
      simulation_results |-> simulation_results ]

\* A /api/simulate request: what was posted (given), where it is in
\* run_simulation (pc), its local variables, the text-generation calls it
\* has made, and its response.  inner is the value the agent returned, made
\* the dict built from it by generate_attack_scenario, scenario the dict
\* that call returned.  trail is a history variable: the simulator methods
\* the request has called, each with the status it left on its dict; so is
\* searched, the records the collectors returned to a search.
NewRequest ==
    [ route |-> "/api/simulate", pc |-> "receive", given |-> Body(FALSE, {}, NoneValue, Null),
      query |-> Null, target |-> NoneValue, complexity |-> Null, inner |-> <<>>,
      made |-> None, scenario |-> None, calls |-> <<>>,
      status |-> 0, error |-> Null, details |-> Null, results |-> <<>>,
      trail |-> <<>>,
      data_type |-> Null, searched |-> [maritime |-> <<>>, infrastructure |-> <<>>] ]

\* return jsonify({...}), status
Respond(rq, status, error, details) ==
    [rq EXCEPT !.pc = "done", !.status = status, !.error = error, !.details = details]

\* A 500 that carries no detail.
FailWithoutDetails(rq, exception) == Respond(rq, 500, "Error running simulation", Null)

\* except Exception as e: the 500 with str(e) as details
Fail(rq, exception) == Respond(rq, 500, "Error running simulation", exception)

\* One simulator method that returned, and the status of its dict then.
Stage(name, status) == [stage |-> name, status |-> status]

\* One call of the text-generation service and whether it raised.
Call(name, raised) == [name |-> name, raised |-> raised]

\* The inputs of one request: the body posted, the outcomes of the two
\* text-generation calls and the draws of the simulation.
Inputs(body, gen, draws, ana) == [body |-> body, gen |-> gen, draws |-> draws, ana |-> ana]

\* The checks of the body, before the try block.
ReceiveStage(st, in) ==
    LET data == in.body
        target == IF "target" \in data.keys THEN data.target ELSE NoneValue
        complexity == IF "complexity" \in data.keys THEN data.complexity ELSE "medium"
        got == [st EXCEPT !.rq.given = data]
    IN IF ~data.present \/ data.keys = {}
       THEN [got EXCEPT !.rq = Respond(@, 400, "No data provided", Null)]
       ELSE IF ~Truthy(target)
       THEN [got EXCEPT !.rq = Respond(@, 400, "Target information is required", Null)]
       ELSE [got EXCEPT !.rq.pc = "generate", !.rq.target = target,
                        !.rq.complexity = complexity]

\* ClaudeAgent.generate_attack_scenario, called by the simulator's method:
\* _format_dict(target_info) raises on a target with no items(); then the
\* one service call.
GenerateStage(st, in) ==
    IF st.rq.target.ty # "dict"
    THEN [st EXCEPT !.rq = Fail(@, "AttributeError")]
    ELSE LET called == [st EXCEPT !.rq.calls =
                            Append(@, Call("generate_attack_scenario", in.gen = ApiError))]
         IN IF in.gen = ApiError
            THEN [called EXCEPT !.rq = Fail(@, "APIError")]
            ELSE [called EXCEPT !.rq.inner = ParseAttackScenario(in.gen),
                                !.rq.pc = "assign"]

\* self.current_scenario = {...}
AssignStage(st, in) ==
    LET ref == Len(st.p.scenarios) + 1
    IN [st EXCEPT !.p.scenarios = Append(@, NewScenario(st.rq.target.v, st.rq.inner)),
                  !.p.current_scenario = ref,
                  !.rq.made = ref,
                  !.rq.trail = Append(@, Stage("generate_attack_scenario",
                                               NewScenario(st.rq.target.v, st.rq.inner).status)),
                  !.rq.pc = "return"]

\* A run that goes from generation straight to analysis.
ReturnStageSkippingSimulation(st, in) ==
    [st EXCEPT !.rq.scenario = st.p.current_scenario, !.rq.pc = "analyze"]

\* return self.current_scenario
ReturnStage(st, in) ==
    [st EXCEPT !.rq.scenario = st.p.current_scenario, !.rq.pc = "simulate"]

\* simulator.simulate_attack(scenario)
SimulateStage(st, in) ==
    LET ref == st.rq.scenario
        obj == st.p.scenarios[ref]
        walk == SimulateSteps(obj.scenario.steps, 1, in.draws, 0, InitialResults(obj))
        updated == UpdateWithResults(obj, walk.results, SubSeq(in.draws, 1, walk.used))
    IN [st EXCEPT !.p.scenarios[ref] = updated,
                  !.p.simulation_history = AddToHistory(@, ref),
                  !.rq.trail = Append(@, Stage("simulate_attack", updated.status)),
                  !.rq.pc = "analyze"]

\* An analysis that leaves the status of the dict as it was.
AnalyzeStageKeepingStatus(st, in) ==
    LET ref == st.rq.scenario
        called == [st EXCEPT !.rq.calls =
                       Append(@, Call("analyze_vulnerability", in.ana = ApiError))]
    IN IF in.ana = ApiError
       THEN [called EXCEPT !.rq = Fail(@, "APIError")]
       ELSE [called EXCEPT
                !.p.scenarios[ref] =
                    [@ EXCEPT !.vulnerability_analysis = ParseVulnerabilityAnalysis(in.ana),
                              !.keys = @ \cup {"vulnerability_analysis"}],
                !.rq.pc = "store"]

\* simulator.analyze_vulnerability(result), with its one service call
AnalyzeStage(st, in) ==
    LET ref == st.rq.scenario
        called == [st EXCEPT !.rq.calls =
                       Append(@, Call("analyze_vulnerability", in.ana = ApiError))]
    IN IF in.ana = ApiError
       THEN [called EXCEPT !.rq = Fail(@, "APIError")]
       ELSE [called EXCEPT
                !.p.scenarios[ref] =
                    [@ EXCEPT !.vulnerability_analysis = ParseVulnerabilityAnalysis(in.ana),
                              !.status = "analyzed",
                              !.keys = @ \cup {"vulnerability_analysis"}],
                !.rq.trail = Append(@, Stage("analyze_vulnerability", "analyzed")),
                !.rq.pc = "store"]

\* simulation_results.append(analysis), the timestamp and the target put on
\* the dict, and the response.
StoreStage(st, in) ==
    LET ref == st.rq.scenario
    IN [st EXCEPT !.p.simulation_results = Append(@, ref),
                  !.p.scenarios[ref] = [@ EXCEPT !.target = st.rq.target.v,
                                                 !.keys = @ \cup {"timestamp"}],
                  !.rq = Respond(@, 200, Null, Null)]

\* The next stage of the request, from where it is.
Advance(st, in) ==
    CASE st.rq.pc = "receive" -> ReceiveStage(st, in)
      [] st.rq.pc = "generate" -> GenerateStage(st, in)
      [] st.rq.pc = "assign" -> AssignStage(st, in)
      [] st.rq.pc = "return" -> ReturnStage(st, in)
      [] st.rq.pc = "simulate" -> SimulateStage(st, in)
      [] st.rq.pc = "analyze" -> AnalyzeStage(st, in)
      [] st.rq.pc = "store" -> StoreStage(st, in)
      [] OTHER -> st

\* run_simulation from the first line to the response.
RECURSIVE Run(_, _)
Run(st, in) == IF st.rq.pc = "done" THEN st ELSE Run(Advance(st, in), in)

\* One request served with no other request in flight.
RunSimulation(body, gen, draws, ana) ==
    \E st \in {Run([p |-> Process, rq |-> NewRequest], Inputs(body, gen, draws, ana))} :
        /\ scenarios' = st.p.scenarios
        /\ current_scenario' = st.p.current_scenario
        /\ simulation_history' = st.p.simulation_history
        /\ simulation_results' = st.p.simulation_results
        /\ response' = st.rq
        /\ UNCHANGED <<system_details, lastOp, osintVars, historyAnalysis, results_file, requests>>

\* `query.lower() in json.dumps(record).lower()`, for the queries of the
\* model: the text holds the record's keys and its string values.
SearchedFields == {"vessel_name", "vessel_type", "name", "type"}

\* query.lower()
Lower(query) == IF query = "TANKER" THEN "tanker" ELSE query

QueryIn(record, query) ==
    \/ Lower(query) \in DOMAIN record
    \/ \E k \in SearchedFields \cap DOMAIN record : Lower(query) \in WordsIn(record[k])

\* A search that appends every record.
SearchHitsOfEveryRecord(kind, records, query) ==
    List([i \in 1..Len(records) |-> [type |-> kind, data |-> records[i]]])

\* The entries search_osint_data appends for the records of one kind.
SearchHits(kind, records, query) ==
    List([i \in 1..Len(SelectSeq(records, LAMBDA r : QueryIn(r, query))) |->
                [type |-> kind, data |-> SelectSeq(records, LAMBDA r : QueryIn(r, query))[i]]])

\* OSINTCollector.search_osint_data: the collectors called, in order, each
\* with its default limit.  ais and infra are the outcomes of the two
\* collectors (NoOutcome for the one not called); json.dumps raises on a
\* vessel that carries a numpy value.
SearchOsintData(query, data_type, dl, io, seed) ==
    LET maritime == data_type \in {"all", "maritime"}
        infrastructure == data_type \in {"all", "infrastructure"}
        ais == IF maritime THEN CollectAis(DefaultLimit, dl, seed)
               ELSE Outcome(aisCache, "returned", <<>>, {}, FALSE)
        dumped == JsonDumps(ais.value)
        reached == infrastructure /\ dumped
        infra == IF reached THEN CollectInfrastructure(Country, DefaultLimit, io, seed)
                 ELSE Outcome(infraCache, "returned", <<>>, {}, FALSE)
    IN [ ais |-> ais, infra |-> infra, maritime |-> maritime, infrastructure |-> reached,
         ret |-> IF ~dumped THEN "TypeError" ELSE infra.ret,
         results |-> IF dumped /\ infra.ret = "returned"
                     THEN SearchHits("maritime", ais.value, query)
                          \o SearchHits("infrastructure", infra.value, query)
                     ELSE <<>> ]

\* The route /api/search.  An exception of search_osint_data is not caught:
\* Flask answers it with its own 500 page.  osintOp records the collector
\* that was called last.
Queries == {"", "tanker", "TANKER", "systems", "no-such-text"}
DataTypes == {"all", "maritime", "infrastructure"}

SearchTargets(query, target_type, dl, io, seed) ==
    LET rq == [NewRequest EXCEPT !.route = "/api/search", !.query = query,
                                 !.data_type = target_type] IN
    IF query = ""
    THEN /\ response' = Respond(rq, 400, "Query parameter is required", Null)
         /\ UNCHANGED <<system_details, simulatorVars, osintVars, historyAnalysis, results_file,
                        simulation_results, requests>>
    ELSE \E found \in {SearchOsintData(query, target_type, dl, io, seed)} :
         /\ aisCache' = found.ais.cache
         /\ infraCache' = found.infra.cache
         /\ osintOp' = IF found.infrastructure
                       THEN OsintOp("collect_infrastructure_data", "infrastructure", Null,
                                    DefaultLimit, found.infra.ret, found.infra.value,
                                    found.infra, FALSE)
                       ELSE IF found.maritime
                       THEN OsintOp("collect_ais_data", "maritime", Null, DefaultLimit,
                                    found.ais.ret, found.ais.value, found.ais, FALSE)
                       ELSE osintOp
         /\ response' = IF found.ret = "returned"
                        THEN [Respond(rq, 200, Null, Null) EXCEPT
                                  !.results = found.results,
                                  !.searched = [maritime |-> found.ais.value,
                                                infrastructure |-> found.infra.value]]
                        ELSE Respond(rq, 500, Null, Null)
         /\ UNCHANGED <<system_details, simulatorVars, historyAnalysis, results_file,
                        simulation_results, requests>>

\* The route /api/analyze: the scenario dicts of simulation_results are
\* handed to analyze_simulation_results.
AnalyzeResults(outcome) ==
    LET rq == [NewRequest EXCEPT !.route = "/api/analyze"]
        given == [i \in 1..Len(simulation_results) |-> scenarios[simulation_results[i]]]
    IN /\ IF simulation_results = <<>>
          THEN /\ response' = Respond(rq, 404, "No simulation results available", Null)
               /\ UNCHANGED historyAnalysis
          ELSE \E analysis \in {AnalysisOf(List(given), outcome)} :
               /\ historyAnalysis' = analysis
               /\ response' =
                      IF analysis.ret = "error" THEN Respond(rq, 500, analysis.error, Null)
                      ELSE IF analysis.ret = "analysis" THEN Respond(rq, 200, Null, Null)
                      ELSE Respond(rq, 500, "Error analyzing results", analysis.ret)
       /\ UNCHANGED <<system_details, simulatorVars, osintVars, results_file,
                      simulation_results, requests>>

\* Requests served by threads of one process.  A request arrives and its
\* body is checked, which touches nothing shared.
RequestArrives(body) ==
    /\ requests' = Append(requests,
           ReceiveStage([p |-> Process, rq |-> NewRequest], Inputs(body, "", <<>>, "")).rq)
    /\ UNCHANGED <<system_details, simulatorVars, osintVars, historyAnalysis, results_file,
                   simulation_results, response>>

\* The thread of request r runs its next stage.
RequestAdvances(r, gen, draws, ana) ==
    /\ requests[r].pc # "done"
    /\ \E st \in {Advance([p |-> Process, rq |-> requests[r]], Inputs(requests[r].given, gen, draws, ana))} :
        /\ scenarios' = st.p.scenarios
        /\ current_scenario' = st.p.current_scenario
        /\ simulation_history' = st.p.simulation_history
        /\ simulation_results' = st.p.simulation_results
        /\ requests' = [requests EXCEPT ![r] = st.rq]
    /\ UNCHANGED <<system_details, lastOp, osintVars, historyAnalysis, results_file, response>>

-----------------------------------------------------------------------------
(* RedTeamSimulator._get_detailed_system_info *)

\* random.choice's lists, and the values random.randint is asked for.
Configurations == <<"default", "custom", "hardened">>
EncryptionLevels == <<"none", "partial", "full">>
AuthenticationLevels == <<"basic", "2fa", "mfa">>
KnownVulnerabilityCounts == 0..5
VersionMajors == 1..10
VersionMinors == 0..9
PatchLevels == 1..20

\* The draws made for one system and for the security controls, in the order
\* of the calls.
SystemDraws ==
    [major : VersionMajors, minor : VersionMinors, patch : PatchLevels,
     configuration : 1..Len(Configurations), known_vulnerabilities : KnownVulnerabilityCounts]
ControlDraws ==
    [firewall : BOOLEAN, ids : BOOLEAN, encryption : 1..Len(EncryptionLevels),
     authentication : 1..Len(AuthenticationLevels)]

\* Only the first system of the target.
NamedSystemsFirstOnly(target_info) ==
    IF "systems" \in DOMAIN target_info THEN Take(target_info.systems, 1) ELSE <<>>

\* target_info.get("systems", [])
NamedSystems(target_info) ==
    IF "systems" \in DOMAIN target_info THEN target_info.systems ELSE <<>>

\* The value of systems[system] = {...}
SystemDetail(d) ==
    [ version |-> ToStr(d.major) \o "." \o ToStr(d.minor),
      patch_level |-> "P" \o ToStr(d.patch),
      configuration |-> Configurations[d.configuration],
      known_vulnerabilities |-> d.known_vulnerabilities ]

\* The dict systems after the loop: an assignment to a key the dict already
\* has replaces its value, so a name holds the detail made at its last place.
DetailedSystems(systems, draws) ==
    [ name \in {systems[i] : i \in 1..Len(systems)} |->
        LET last == CHOOSE i \in 1..Len(systems) :
                        /\ systems[i] = name
                        /\ \A j \in (i + 1)..Len(systems) : systems[j] # name
        IN SystemDetail(draws[last]) ]

SecurityControls(c) ==
    [ firewall |-> c.firewall, ids |-> c.ids,
      encryption |-> EncryptionLevels[c.encryption],
      authentication |-> AuthenticationLevels[c.authentication] ]

SystemDetails(called, target_info, value) ==
    [called |-> called, target_info |-> target_info, value |-> value]

NoSystemDetails ==
    SystemDetails(FALSE, [id |-> Null],
                  [detailed_systems |-> <<>>,
                   security_controls |-> SecurityControls(CHOOSE c \in ControlDraws : TRUE)])

GetDetailedSystemInfo(target_info, draws, controls) ==
    /\ system_details' =
           SystemDetails(TRUE, target_info,
               [ detailed_systems |-> DetailedSystems(NamedSystems(target_info), draws),
                 security_controls |-> SecurityControls(controls) ])
    /\ UNCHANGED <<simulatorVars, osintVars, historyAnalysis, results_file,
                   simulation_results, response, requests>>

-----------------------------------------------------------------------------

Init ==
    /\ scenarios = <<>>
    /\ current_scenario = None
    /\ simulation_history = <<>>
    /\ lastOp = Op("init", None, "returned", "")
    /\ aisCache = AgedFile(AbsentFile, 0)
    /\ infraCache = AgedFile(AbsentFile, 0)
    /\ osintOp = OsintOp("init", "maritime", Null, 0, "returned", <<>>, NoOutcome, FALSE)
    /\ historyAnalysis = HistoryAnalysis("init", <<>>, "analysis", Null, SplitStart, <<>>, FALSE)
    /\ results_file = NoSavedFile
    /\ simulation_results = <<>>
    /\ response = [NewRequest EXCEPT !.route = "none", !.pc = "done"]
    /\ requests = <<>>
    /\ system_details = NoSystemDetails

\* The exploration is bounded here, not in the operations: a behaviour
\* allocates scenario dicts and completes simulate_attack calls MaxCalls times
\* in all.
StepsOf(arg) == IF Resolve(arg) = None THEN <<>> ELSE scenarios[Resolve(arg)].scenario.steps
CallsLeft == Len(scenarios) + Len(simulation_history) < MaxCalls

\* The walks explored where the draws are not what is looked at: every step
\* succeeds, every step fails and the walk goes on, the first step fails and
\* the walk stops.
LifecycleTapes(n) ==
    {[i \in 1..(2 * n) |-> 60], [i \in 1..(2 * n) |-> 30],
     [i \in 1..(2 * n) |-> IF i = 1 THEN 30 ELSE 60]}

Generate ==
    /\ CallsLeft
    /\ \E t \in Targets, c \in Complexities, o \in ServiceOutcomes :
           GenerateAttackScenario(t, c, o)

CallerBuilds ==
    /\ CallsLeft
    /\ \E t \in Targets, s \in CallerStepLists : CallerBuildsScenario(t, s)

Simulate ==
    /\ CallsLeft
    /\ \E a \in {None} \cup Refs : \E d \in Tapes(Len(StepsOf(a))) : SimulateAttack(a, d)

SimulateLifecycle ==
    /\ CallsLeft
    /\ \E a \in {None} \cup Refs : \E d \in LifecycleTapes(Len(StepsOf(a))) :
           SimulateAttack(a, d)

Analyze ==
    \E a \in {None} \cup Refs, o \in ServiceOutcomes : AnalyzeVulnerability(a, o)

\* The attack simulator under every tape of draws.
Next == Generate \/ CallerBuilds \/ Simulate

Spec == Init /\ [][Next]_vars

\* The life of a scenario: generated, simulated and analyzed in any order.
NextLifecycle == Generate \/ SimulateLifecycle \/ Analyze

SpecLifecycle == Init /\ [][NextLifecycle]_vars

\* The route /api/simulate, one request at a time.  The scenario of the agent
\* has three steps, so a request consumes at most six draws.
RequestTapes == LifecycleTapes(3)

\* The service replies or raises; the agent's parsers do not read the reply.
RequestOutcomes == {WellFormedReply, ApiError}

SimulateRequest ==
    /\ Len(scenarios) < MaxRequests
    /\ \E body \in Bodies, gen \in RequestOutcomes, draws \in RequestTapes,
          ana \in RequestOutcomes :
           RunSimulation(body, gen, draws, ana)

\* The route /api/search, over two outcomes of the dataset download.
SearchDownloads ==
    { NoDownload, [kaggle |-> "file", files |-> <<CsvFile("ais", BooleanFlagTable)>>] }

SearchRequest ==
    /\ response.route # "/api/simulate"
    /\ \E query \in Queries, target_type \in DataTypes, dl \in SearchDownloads,
          io \in WriteOutcomes, seed \in Seeds :
           SearchTargets(query, target_type, dl, io, seed)

\* The two routes touch disjoint objects (the simulator and the results
\* list; the collectors' files), so a behaviour serves requests of one route.
NextRoutes == (response.route # "/api/search" /\ SimulateRequest) \/ SearchRequest

SpecRoutes == Init /\ [][NextRoutes]_vars

NextApi == SimulateRequest

\* The route /api/simulate with MaxRequests requests in flight.
Arrival == Len(requests) < MaxRequests /\ \E body \in Bodies : RequestArrives(body)
Progress ==
    \E r \in 1..Len(requests), gen \in RequestOutcomes, draws \in RequestTapes,
       ana \in RequestOutcomes :
        RequestAdvances(r, gen, draws, ana)

NextThreads == Arrival \/ Progress

SpecThreads == Init /\ [][NextThreads]_vars

\* _get_detailed_system_info on its own.  The method reads and writes nothing
\* of the simulator, so a behaviour holds one call.  The targets: one that
\* names no systems, one with an empty list, a vessel with two systems, and a
\* target that names a system twice.  The draws explored for a system are the
\* ends of the version and patch ranges with every configuration and count.
DetailTargets ==
    { [type |-> "maritime", id |-> "7"],
      [type |-> "maritime", id |-> "8", systems |-> <<>>],
      [type |-> "maritime", id |-> "123", systems |-> <<"navigation", "communication">>],
      [type |-> "infrastructure", id |-> "FAC10003", systems |-> <<"SCADA", "SCADA">>] }

ExploredSystemDraws ==
    { d \in SystemDraws : \/ d.major = 1 /\ d.minor = 0 /\ d.patch = 1
                          \/ d.major = 10 /\ d.minor = 9 /\ d.patch = 20 }

BuildDetails ==
    /\ ~system_details.called
    /\ \E t \in DetailTargets :
       \E draws \in SeqsOfLen(ExploredSystemDraws, Len(NamedSystems(t))) :
       \E controls \in ControlDraws :
           GetDetailedSystemInfo(t, draws, controls)

NextDetails == BuildDetails

SpecDetails == Init /\ [][NextDetails]_vars

SpecApi == Init /\ [][NextApi]_vars

\* The simulator with its history written to disk between calls.
Save == \E filename \in Filenames, io \in SaveOutcomes : SaveResults(filename, io)

NextHistory == Generate \/ SimulateLifecycle \/ Analyze \/ Save

SpecHistory == Init /\ [][NextHistory]_vars

\* The simulator called by a caller that also builds scenarios by hand, so
\* that scenarios exist while there is no current scenario.  The service
\* either replies or raises; what it replies is not looked at.  The analysis
\* is asked for without a scenario or for the current one.
GenerateCall ==
    /\ CallsLeft
    /\ \E t \in Targets, o \in RequestOutcomes : GenerateAttackScenario(t, "medium", o)

AnalyzeCall ==
    \E a \in {None, current_scenario}, o \in RequestOutcomes : AnalyzeVulnerability(a, o)

SaveCall == \E io \in SaveOutcomes : SaveResults(Null, io)

NextCalls == GenerateCall \/ CallerBuilds \/ SimulateLifecycle \/ AnalyzeCall \/ SaveCall

SpecCalls == Init /\ [][NextCalls]_vars

\* The maritime side of the target provider: the AIS collector and the
\* simulator's loader, over every dataset, seed and identifier.  The loader
\* of a maritime target writes no facility cache.
CollectAisStep ==
    \E limit \in Limits, dl \in DownloadOutcomes, seed \in Seeds :
        CollectAisData(limit, dl, seed)
LoadMaritime ==
    \E target_id \in TargetIds, dl \in DownloadOutcomes, seed \in Seeds, pick \in Picks :
        LoadTargetFromOsint("maritime", target_id, dl, "ok", seed, pick)

NextMaritime == CollectAisStep \/ LoadMaritime \/ AisCacheDamaged

SpecMaritime == Init /\ [][NextMaritime]_vars

\* The infrastructure side: the facility collector and the loader, over every
\* write outcome, seed and identifier.  The loader of a facility downloads
\* no dataset.
CollectInfrastructureStep ==
    \E limit \in Limits, io \in WriteOutcomes, seed \in Seeds :
        CollectInfrastructureData(Country, limit, io, seed)
LoadInfrastructure ==
    \E target_id \in TargetIds, io \in WriteOutcomes, seed \in Seeds, pick \in Picks :
        LoadTargetFromOsint("infrastructure", target_id, NoDownload, io, seed, pick)

NextInfrastructure ==
    CollectInfrastructureStep \/ LoadInfrastructure \/ InfraCacheDamaged \/ TimePasses

SpecInfrastructure == Init /\ [][NextInfrastructure]_vars

\* The history analysis, over every reply of at most MaxLines lines.  A call
\* reads nothing an earlier call left, so a behaviour makes one call.
\* The lists handed to the analysis: none, a scenario for a target posted as
\* JSON, and a scenario for a vessel as collect_ais_data returns it from a
\* dataset it has just processed.
ResultLists ==
    { <<>>,
      <<NewScenario(CHOOSE t \in Targets : TRUE, ParseAttackScenario(""))>>,
      <<NewScenario(ProcessDataset(TwoVesselTable)[1], ParseAttackScenario(""))>> }

NextSplitter ==
    /\ historyAnalysis.op = "init"
    /\ \E results \in ResultLists, outcome \in AnalysisOutcomes :
           AnalyzeSimulationResults(results, outcome)

SpecSplitter == Init /\ [][NextSplitter]_vars

\* The history analysis called by /api/analyze on the scenarios that
\* /api/simulate stored, and called directly once.  The service raises or
\* replies; two replies stand for all.
RouteReplies == {<<>>, << <<"1. ", "Key Findings">>, <<Dash, "item">> >>}
RouteAnalysisOutcomes ==
    {[raised |-> TRUE, text |-> <<>>]} \cup {[raised |-> FALSE, text |-> r] : r \in RouteReplies}

AnalyzeRequest == \E outcome \in RouteAnalysisOutcomes : AnalyzeResults(outcome)

AnalyzeDirectly ==
    /\ historyAnalysis.op = "init"
    /\ \E results \in ResultLists, outcome \in RouteAnalysisOutcomes :
           AnalyzeSimulationResults(results, outcome)

NextAnalysis == SimulateRequest \/ AnalyzeRequest \/ AnalyzeDirectly

SpecAnalysis == Init /\ [][NextAnalysis]_vars

\* The two collectors side by side, as the routes /api/targets and
\* /api/search call them, with what happens to their files between calls.
\* The dataset source fails, is empty, or holds one of two tables; the other
\* outcomes of the download are those of SpecMaritime.
CollectorDownloads ==
    { [kaggle |-> "api_error", files |-> <<>>],
      NoDownload,
      [kaggle |-> "directory", files |-> <<ReadmeFile, CsvFile("ais", TwoVesselTable)>>],
      [kaggle |-> "file", files |-> <<CsvFile("ais", BooleanFlagTable)>>] }

CollectAisBesideFacilities ==
    \E limit \in Limits, dl \in CollectorDownloads, seed \in Seeds :
        CollectAisData(limit, dl, seed)

NextCollectors ==
    \/ CollectAisBesideFacilities
    \/ CollectInfrastructureStep
    \/ AisCacheDamaged
    \/ InfraCacheDamaged
    \/ TimePasses

SpecCollectors == Init /\ [][NextCollectors]_vars

-----------------------------------------------------------------------------
(* Properties of simulate_attack *)

Simulated(r) == "simulation_results" \in scenarios[r].keys
StepCount(r) == Len(scenarios[r].scenario.steps)
Results(r) == scenarios[r].simulation_results
ResultCount(r) == Len(Results(r))

C2_OverallSuccessIffAnySuccess ==
    \A r \in Refs :
        Simulated(r) =>
            (scenarios[r].overall_success <=> \E k \in 1..ResultCount(r) : Results(r)[k].success)

\* The first step succeeded and the last one failed.
C2_Witness ==
    \E r \in Refs :
        /\ Simulated(r) /\ ResultCount(r) = 3
        /\ Results(r)[1].success /\ ~Results(r)[3].success
        /\ scenarios[r].overall_success

\* C3: the walk ends before the last step only right after a failed step:
\* with fewer than N results the last one failed, and a successful step
\* k < N is followed by the result of step k + 1.
C3_EarlyEndOnlyAfterFailure ==
    \A r \in Refs :
        Simulated(r) =>
            /\ ResultCount(r) < StepCount(r) =>
                   ResultCount(r) >= 1 /\ ~Results(r)[ResultCount(r)].success
            /\ \A k \in 1..ResultCount(r) :
                   Results(r)[k].success /\ k < StepCount(r) => ResultCount(r) >= k + 1

\* A success followed by a failure that ended the walk before the last step.
C3_Witness ==
    \E r \in Refs :
        /\ Simulated(r) /\ StepCount(r) = 3 /\ ResultCount(r) = 2
        /\ Results(r)[1].success /\ ~Results(r)[2].success

\* A failed step k < N followed by the result of step k + 1.
FailedThenContinued(obj) ==
    \E k \in 1..(Len(obj.simulation_results) - 1) : ~obj.simulation_results[k].success

\* A failed step k < N that is the last recorded result.
FailedAndStopped(obj) ==
    LET n == Len(obj.simulation_results) IN
    n >= 1 /\ n < Len(obj.scenario.steps) /\ ~obj.simulation_results[n].success

\* C4: a failed step does not always stop the walk: for every scenario with
\* N >= 2 steps, simulate_attack can record a failed step k < N followed by
\* step k + 1, and can record a failed step k < N as the last result.
C4_FailureMayContinueOrStop ==
    \A r \in Refs :
        StepCount(r) >= 2 =>
            /\ ENABLED (\E d \in Tapes(StepCount(r)) :
                   SimulateAttack(r, d) /\ FailedThenContinued(scenarios'[r]))
            /\ ENABLED (\E d \in Tapes(StepCount(r)) :
                   SimulateAttack(r, d) /\ FailedAndStopped(scenarios'[r]))

\* Both kinds of walk have happened.
C4_Witness ==
    /\ \E r \in Refs : Simulated(r) /\ FailedThenContinued(scenarios[r])
    /\ \E r \in Refs : Simulated(r) /\ FailedAndStopped(scenarios[r])

\* A simulate_attack call returned in this step: the history grew.
SimulateReturned == Len(simulation_history') = Len(simulation_history) + 1
SimulatedRef == simulation_history'[Len(simulation_history')]

\* C5: every simulate_attack call that returns leaves its scenario with
\* status "simulated", whatever the status was, and changes the status of no
\* other scenario.
C5_StatusSimulatedAfterCall ==
    [][ SimulateReturned =>
            /\ scenarios'[SimulatedRef].status = "simulated"
            /\ \A q \in Refs : q # SimulatedRef => scenarios'[q].status = scenarios[q].status
      ]_vars

\* simulate_attack returned on a scenario that had been analyzed and never
\* simulated.
C5_Witness ==
    /\ lastOp.op = "simulate_attack" /\ lastOp.ret = "returned"
    /\ simulation_history = <<lastOp.ref>>
    /\ "vulnerability_analysis" \in scenarios[lastOp.ref].keys
    /\ scenarios[lastOp.ref].status = "simulated"

\* C6: two runs of simulate_attack over the same step list that are fed the
\* same draws record the same StepResults and the same overall_success: two
\* scenarios with the same steps and the same draws, and two runs in a row on
\* one scenario.
SameOutcome(a, b) ==
    a.simulation_results = b.simulation_results /\ a.overall_success = b.overall_success

-----------------------------------------------------------------------------
(* Properties of generate_attack_scenario *)

\* C7: whatever text the service replies, generate_attack_scenario returns a
\* scenario with a non-null attack_vector, a non-empty steps list and a
\* defined impact; it raises only when the service call itself raises.
C7_ScenarioConformsForEveryReply ==
    lastOp.op = "generate_attack_scenario" /\ lastOp.reply \in Replies =>
        /\ lastOp.ret = "returned"
        /\ lastOp.ref = current_scenario
        /\ LET inner == scenarios[lastOp.ref].scenario IN
               /\ inner.attack_vector # Null
               /\ Len(inner.steps) >= 1
               /\ inner.impact # Null

\* A scenario was returned for the empty reply.
C7_Witness ==
    /\ lastOp.op = "generate_attack_scenario" /\ lastOp.reply = ""
    /\ lastOp.ret = "returned"
    /\ Len(scenarios[lastOp.ref].scenario.steps) >= 1

-----------------------------------------------------------------------------
(* Properties of the target provider *)

Loaded == osintOp.op = "load_target_from_osint"
IdentifierGiven == osintOp.target_id \notin {Null, ""}

\* The record as the loader returns it.
AsTarget(record) ==
    Merge([type |-> IF osintOp.target_type = "maritime" THEN "maritime"
                    ELSE "infrastructure"], record)

\* The positions of the fetched record set whose record carries the identifier.
MatchingFetched ==
    {i \in 1..Len(osintOp.fetched) :
        Matches(osintOp.target_type, osintOp.fetched[i], osintOp.target_id)}

\* C8: load_target_from_osint, given an identifier that matches no record of
\* the fetched record set, returns a record of that same set and raises no
\* error; given one that matches a record, it returns that record.
C8_UnmatchedGivesRecordOfSetMatchedGivesMatch ==
    Loaded /\ IdentifierGiven =>
        /\ osintOp.ret = "returned"
        /\ \E i \in (IF MatchingFetched = {} THEN 1..Len(osintOp.fetched)
                     ELSE MatchingFetched) :
               osintOp.value = <<AsTarget(osintOp.fetched[i])>>

\* The loader was given an identifier no fetched vessel carries, the fetched
\* set being empty, and random.choice raised.
C8_EmptySetRaises ==
    /\ Loaded /\ IdentifierGiven /\ osintOp.target_type = "maritime"
    /\ osintOp.fetched = <<>>
    /\ osintOp.ret = "IndexError"

\* C9: collect_ais_data returns at least one vessel record, whatever the state
\* of the cache file and whatever the download does.
C9_AtLeastOneVessel ==
    osintOp.op = "collect_ais_data" =>
        osintOp.ret = "returned" /\ Len(osintOp.value) >= 1

\* collect_ais_data, asked for at least one vessel, returned an empty list:
\* from a dataset it had just processed, or from the cache file.
C9_EmptyFromDataset ==
    /\ osintOp.op = "collect_ais_data" /\ osintOp.limit >= 1
    /\ osintOp.ret = "returned" /\ osintOp.value = <<>>
    /\ osintOp.queried
C9_EmptyFromCache ==
    /\ osintOp.op = "collect_ais_data" /\ osintOp.limit >= 1
    /\ osintOp.ret = "returned" /\ osintOp.value = <<>>
    /\ ~osintOp.queried /\ osintOp.cache_before.kind = "list"

\* The failures the collectors are to mask.
MaskedFailures == {"download_error", "malformed_cache", "missing_columns"}

\* C10: a collector that meets a download error, a malformed cache file or
\* missing dataset columns returns its records and does not raise.
C10_FailuresDoNotPropagate ==
    /\ osintOp.op \in {"collect_ais_data", "collect_infrastructure_data"}
    /\ osintOp.failures \cap MaskedFailures # {}
    => osintOp.ret = "returned"

\* collect_infrastructure_data read a malformed cache file and raised.
C10_MalformedFacilityCacheRaises ==
    /\ osintOp.op = "collect_infrastructure_data"
    /\ osintOp.cache_before.kind = "corrupt"
    /\ "malformed_cache" \in osintOp.failures
    /\ osintOp.ret = "JSONDecodeError"

-----------------------------------------------------------------------------
(* Properties of the cache files *)

\* A request served while the cache file holds a list that the validity rule
\* accepts: any parseable vessel cache, a facility cache younger than CacheTtl.
VesselCacheValid == aisCache.kind = "list"
FacilityCacheValid == infraCache.kind = "list" /\ infraCache.age < CacheTtl

\* The first n records of a list, all of it when it is shorter.
Prefix(list, n) == SubSeq(list, 1, IF n < Len(list) THEN n ELSE Len(list))

ServedVessels ==
    osintOp.op = "collect_ais_data" /\ osintOp.cache_before.kind = "list"
ServedFacilities ==
    /\ osintOp.op = "collect_infrastructure_data"
    /\ osintOp.cache_before.kind = "list" /\ osintOp.cache_before.age < CacheTtl

C13_TargetKindIsRequestedKind ==
    Loaded /\ osintOp.ret = "returned" =>
        /\ osintOp.target_type \in {"maritime", "infrastructure"}
        /\ osintOp.value[1].type = osintOp.target_type

\* A facility was requested and the target returned carries the facility's
\* own "type", the sort of facility, in place of the kind.
C13_FacilityTypeReplacesKind ==
    /\ Loaded /\ osintOp.ret = "returned"
    /\ osintOp.target_type = "infrastructure"
    /\ \E i \in 1..Len(FacilityTypes) : osintOp.value[1].type = FacilityTypes[i]
    /\ osintOp.value[1].type # "infrastructure"

-----------------------------------------------------------------------------
(* Properties of the history-analysis splitter *)

Split == historyAnalysis.op = "analyze_simulation_results" /\ historyAnalysis.ret = "analysis"
Reply == historyAnalysis.raw_analysis

\* The positions of the reply whose line contains a heading phrase.
HeadingLines == {j \in 1..Len(Reply) : HeadingOf(Reply[j]) # Null}

\* The section opened by the last heading line before line i.
SectionBefore(i) ==
    LET before == {j \in HeadingLines : j < i}
    IN HeadingOf(Reply[CHOOSE j \in before : \A l \in before : l <= j])

\* Line i was put in section n.
PlacedIn(i, n) == \E k \in 1..Len(historyAnalysis.origin[n]) : historyAnalysis.origin[n][k] = i

\* C14: every line of the reply that starts with "- " and comes after a line
\* with a heading phrase is put in the section of the last such line before
\* it, and in no other section.
C14_DashLineGoesToSectionOfLastHeading ==
    Split =>
        \A i \in 1..Len(Reply) :
            StartsWithDash(Reply[i]) /\ (\E j \in HeadingLines : j < i) =>
                \A n \in SectionNames : PlacedIn(i, n) <=> n = SectionBefore(i)

\* A list item that mentions a heading phrase came after a heading and was
\* put in no section.
C14_ItemTakenForHeading ==
    /\ Split
    /\ \E i \in 1..Len(Reply) :
           /\ StartsWithDash(Reply[i])
           /\ \E j \in HeadingLines : j < i
           /\ HeadingOf(Reply[i]) # Null
           /\ \A n \in SectionNames : ~PlacedIn(i, n)

\* C15: no line before the first line with a heading phrase is put in a
\* section, and a reply with no such line leaves every section empty.
C15_LinesBeforeFirstHeadingDropped ==
    Split =>
        /\ \A i \in 1..Len(Reply) :
               (\A j \in HeadingLines : i < j) => \A n \in SectionNames : ~PlacedIn(i, n)
        /\ HeadingLines = {} => \A n \in SectionNames : historyAnalysis.analysis[n] = <<>>

\* A reply whose first line is a list item, whose second line is a heading
\* and whose third line was put in the section.
C15_Witness ==
    /\ Split /\ Len(Reply) = 3
    /\ StartsWithDash(Reply[1]) /\ HeadingOf(Reply[1]) = Null
    /\ HeadingLines = {2}
    /\ PlacedIn(3, HeadingOf(Reply[2]))
    /\ \A n \in SectionNames : ~PlacedIn(1, n)

-----------------------------------------------------------------------------
(* Properties of the simulator's history *)

\* C16: a simulate_attack call that returns appends one entry, the scenario
\* it simulated, to the history, and every other call of
\* generate_attack_scenario, simulate_attack, analyze_vulnerability and
\* save_results leaves the history as it is: no entry is removed, replaced or
\* moved.
C16_HistoryAppendOnly ==
    [][ IF lastOp'.op = "simulate_attack" /\ lastOp'.ret = "returned"
        THEN simulation_history' = Append(simulation_history, lastOp'.ref)
        ELSE simulation_history' = simulation_history ]_vars

\* The history holds two scenarios, it was saved whole, and the first entry
\* was analyzed after it was simulated.
C16_Witness ==
    /\ Len(simulation_history) >= 2
    /\ simulation_history[1] # simulation_history[2]
    /\ lastOp.op = "save_results" /\ lastOp.ret = "returned"
    /\ Len(results_file.data) = Len(simulation_history)
    /\ scenarios[simulation_history[1]].status = "analyzed"

-----------------------------------------------------------------------------
(* Properties of the routes *)

Answered(rq) == rq.route = "/api/simulate" /\ rq.pc = "done"

\* How many times the list holds the reference.
Count(list, ref) == Cardinality({i \in 1..Len(list) : list[i] = ref})

\* C17: with requests to /api/simulate interleaved, the scenario a request
\* gets back from generate_attack_scenario is the one built from its own
\* target, and a request answered with 200 has put that scenario once in
\* simulation_results.
C17_EachRequestKeepsItsOwnScenario ==
    \A r \in 1..Len(requests) :
        /\ requests[r].scenario # None => requests[r].scenario = requests[r].made
        /\ Answered(requests[r]) /\ requests[r].status = 200 =>
               Count(simulation_results, requests[r].made) = 1

\* Two requests were answered with 200, both with the dict built for the
\* second one: the list holds that dict twice and the other dict never.
C17_RequestAnsweredWithOtherScenario ==
    \E r, q \in 1..Len(requests) :
        /\ r # q
        /\ Answered(requests[r]) /\ requests[r].status = 200
        /\ Answered(requests[q]) /\ requests[q].status = 200
        /\ requests[r].scenario = requests[q].made
        /\ requests[r].made # requests[q].made
        /\ requests[r].target # requests[q].target
        /\ Count(simulation_results, requests[q].made) = 2
        /\ Count(simulation_results, requests[r].made) = 0

\* C18: with requests served one at a time, every entry of
\* simulation_results has status "analyzed" and carries simulation_results
\* and vulnerability_analysis, and a request answered with an error leaves
\* the list as it was.
C18_ResultsHoldCompletedScenarios ==
    /\ [](\A i \in 1..Len(simulation_results) :
             /\ scenarios[simulation_results[i]].status = "analyzed"
             /\ {"simulation_results", "vulnerability_analysis"}
                    \subseteq scenarios[simulation_results[i]].keys)
    /\ [][response'.status >= 400 => simulation_results' = simulation_results]_vars

\* A request was answered with 500 after its scenario was simulated: the
\* history holds it, the results list holds only the one analyzed before.
C18_Witness ==
    /\ Answered(response) /\ response.status = 500
    /\ Len(response.calls) = 2
    /\ Len(simulation_results) = 1
    /\ Len(simulation_history) = 2
    /\ scenarios[simulation_history[2]].status = "simulated"

\* The input of the answered request is missing or invalid.
MissingBody(rq) == ~rq.given.present \/ rq.given.keys = {}
MissingTarget(rq) == "target" \notin rq.given.keys \/ ~Truthy(rq.given.target)
InvalidTarget(rq) == ~MissingBody(rq) /\ ~MissingTarget(rq) /\ rq.given.target.ty # "dict"
ClientError(rq) == rq.status \in 400..499 /\ rq.error # Null

\* C19: a request with missing or invalid input is answered with a 4xx JSON
\* error, /api/simulate without a body or without a target and /api/search
\* with an empty query with 400, and a request so answered changes no state.
C19_InvalidInputAnswered4xx ==
    /\ [](Answered(response) /\ (MissingBody(response) \/ MissingTarget(response)) =>
             response.status = 400 /\ ClientError(response))
    /\ [](Answered(response) /\ InvalidTarget(response) => ClientError(response))
    /\ [](response.route = "/api/search" /\ response.query = "" =>
             response.status = 400 /\ ClientError(response))
    /\ [][response'.status \in 400..499 =>
             UNCHANGED <<system_details, simulatorVars, simulation_results, aisCache, infraCache,
                         results_file>>]_vars

\* A request whose target is a string was answered with 500.
C19_StringTargetAnswered500 ==
    /\ Answered(response)
    /\ response.given.target.ty = "str" /\ Truthy(response.given.target)
    /\ response.status = 500
    /\ response.details = "AttributeError"
    /\ response.calls = <<>>

\* C20: in a request to /api/simulate, a text-generation call that raises is
\* the last call of the request, the request is answered with 500, an error
\* message and a detail string; no call is made twice.
C20_FailureSurfacedWithoutRetry ==
    Answered(response) =>
        /\ \A i \in 1..Len(response.calls) :
               response.calls[i].raised =>
                   /\ i = Len(response.calls)
                   /\ response.status = 500
        /\ response.status >= 500 =>
               /\ response.status = 500
               /\ response.error # Null /\ response.details # Null
        /\ \A i, j \in 1..Len(response.calls) :
               response.calls[i].name = response.calls[j].name => i = j
        /\ response.status = 200 => \A i \in 1..Len(response.calls) : ~response.calls[i].raised

\* The analysis call of a request raised after its generation call had
\* replied: 500 with a detail, two calls made.
C20_Witness ==
    /\ Answered(response) /\ response.status = 500
    /\ Len(response.calls) = 2
    /\ ~response.calls[1].raised /\ response.calls[2].raised
    /\ response.calls[2].name = "analyze_vulnerability"
    /\ response.details = "APIError"

\* C21: a request to /api/simulate answered with 200 has called
\* generate_attack_scenario, simulate_attack and analyze_vulnerability once
\* each, in that order, which left the status generated, simulated and
\* analyzed; its scenario has at least one step, between one result and one
\* result per step, and a severity that is not empty.
C21_StagesInOrderOnceEach ==
    Answered(response) /\ response.status = 200 =>
        /\ response.trail = << Stage("generate_attack_scenario", "generated"),
                               Stage("simulate_attack", "simulated"),
                               Stage("analyze_vulnerability", "analyzed") >>
        /\ LET obj == scenarios[response.scenario]
           IN /\ Len(obj.scenario.steps) >= 1
              /\ Len(obj.simulation_results) \in 1..Len(obj.scenario.steps)
              /\ obj.vulnerability_analysis.severity # ""

\* A request was answered with 200 for a walk that stopped at its first step.
C21_Witness ==
    /\ Answered(response) /\ response.status = 200
    /\ Len(response.trail) = 3
    /\ Len(scenarios[response.scenario].simulation_results) = 1
    /\ Len(scenarios[response.scenario].scenario.steps) = 3
    /\ ~scenarios[response.scenario].overall_success

\* C22: the dict built by _get_detailed_system_info has one detail entry for
\* each system the target names and no other (none when the target names no
\* systems), each with known_vulnerabilities in 0..5 and a configuration
\* among default, custom and hardened, and one security_controls record with
\* firewall, ids, encryption and authentication.
C22_OneDetailPerNamedSubsystem ==
    system_details.called =>
        LET target == system_details.target_info
            named == IF "systems" \in DOMAIN target
                     THEN {target.systems[i] : i \in 1..Len(target.systems)} ELSE {}
            built == system_details.value
        IN /\ DOMAIN built = {"detailed_systems", "security_controls"}
           /\ DOMAIN built.detailed_systems = named
           /\ \A name \in named :
                  /\ built.detailed_systems[name].known_vulnerabilities \in 0..5
                  /\ built.detailed_systems[name].configuration
                         \in {"default", "custom", "hardened"}
           /\ DOMAIN built.security_controls =
                  {"firewall", "ids", "encryption", "authentication"}

\* Details were built for a target with two systems, one hardened with no
\* known vulnerability and one left at its defaults with five.
C22_Witness ==
    /\ system_details.called
    /\ DOMAIN system_details.value.detailed_systems = {"navigation", "communication"}
    /\ system_details.value.detailed_systems["navigation"].known_vulnerabilities = 0
    /\ system_details.value.detailed_systems["navigation"].configuration = "hardened"
    /\ system_details.value.detailed_systems["communication"].known_vulnerabilities = 5
    /\ system_details.value.detailed_systems["communication"].configuration = "default"

\* C23: the results simulate_attack recorded on a scenario are a prefix of
\* its step list in step order: the i-th result has step = i and the
\* description of the i-th step, so no step is recorded twice or passed over.
C23_ResultsArePrefixOfSteps ==
    \A ref \in Refs :
        "simulation_results" \in scenarios[ref].keys =>
            LET steps == scenarios[ref].scenario.steps
                results == scenarios[ref].simulation_results
            IN /\ Len(results) <= Len(steps)
               /\ \A i \in 1..Len(results) :
                      /\ results[i].step = i
                      /\ results[i].description = steps[i]

\* A walk over three steps stopped at the second: two results, for the first
\* two steps.
C23_Witness ==
    \E ref \in Refs :
        /\ "simulation_results" \in scenarios[ref].keys
        /\ Len(scenarios[ref].scenario.steps) = 3
        /\ Len(scenarios[ref].simulation_results) = 2
        /\ scenarios[ref].simulation_results[1].success
        /\ ~scenarios[ref].simulation_results[2].success
        /\ scenarios[ref].simulation_results[2].description = "Step 2"

\* The number of places of a list that hold x.
Occurrences(list, x) == Cardinality({i \in 1..Len(list) : list[i] = x})

\* The kinds of record a search of the given data_type selects.
SelectedKinds(data_type) ==
    (IF data_type \in {"all", "maritime"} THEN {"maritime"} ELSE {})
        \cup (IF data_type \in {"all", "infrastructure"} THEN {"infrastructure"} ELSE {})

C25_NeverMoreThanLimit ==
    /\ osintOp.op \in {"collect_ais_data", "collect_infrastructure_data"}
    /\ osintOp.ret = "returned"
    => Len(osintOp.value) <= osintOp.limit

\* The vessel collector alone keeps to its limit.
C25_VesselsWithinLimit ==
    osintOp.op = "collect_ais_data" /\ osintOp.ret = "returned"
        => Len(osintOp.value) <= osintOp.limit

\* collect_infrastructure_data, asked for one facility with no cache file to
\* read, fetched the list and returned every facility of real_facilities.
C25_FreshFetchExceedsLimit ==
    /\ osintOp.op = "collect_infrastructure_data" /\ osintOp.ret = "returned"
    /\ osintOp.queried /\ osintOp.cache_before.kind = "absent"
    /\ osintOp.limit = 1
    /\ Len(osintOp.value) = Len(RealFacilities)

\* collect_infrastructure_data, asked for one facility, returned the whole
\* list that a call with a larger limit had left in the cache file.
C25_CacheExceedsLimit ==
    /\ osintOp.op = "collect_infrastructure_data" /\ osintOp.ret = "returned"
    /\ ~osintOp.queried /\ osintOp.cache_before.kind = "list"
    /\ osintOp.limit = 1
    /\ Len(osintOp.value) = DefaultLimit

\* The dict seen through entry i of the history.
HistoryEntry(i) == scenarios[simulation_history[i]]

\* C26: the history holds the scenario dicts themselves.  Once
\* analyze_vulnerability has returned for a scenario, every entry of the
\* history for it shows the status analyzed and the vulnerability_analysis;
\* and a simulate_attack on a scenario the history already holds appends it
\* again and shows its new results through the earlier entries too.
C26_HistoryEntriesAreReferences ==
    /\ [](lastOp.op = "analyze_vulnerability" /\ lastOp.ret = "returned" =>
             \A i \in 1..Len(simulation_history) :
                 simulation_history[i] = lastOp.ref =>
                     /\ HistoryEntry(i).status = "analyzed"
                     /\ "vulnerability_analysis" \in HistoryEntry(i).keys
                     /\ HistoryEntry(i).vulnerability_analysis # NoAnalysis)
    /\ [][ /\ lastOp'.op = "simulate_attack" /\ lastOp'.ret = "returned"
           /\ Count(simulation_history, lastOp'.ref) > 0
           => /\ simulation_history' = Append(simulation_history, lastOp'.ref)
              /\ \A i \in 1..Len(simulation_history) :
                     simulation_history[i] = lastOp'.ref =>
                         /\ scenarios'[simulation_history'[i]].simulation_results
                                = scenarios'[simulation_history'[Len(simulation_history')]].simulation_results
                         /\ scenarios'[simulation_history'[i]].fed
                                = scenarios'[lastOp'.ref].fed ]_vars

\* A scenario was simulated, analyzed and simulated again: the history holds
\* it twice, and both entries show the analysis and the results of the
\* second walk, which stopped at the first step.
C26_Witness ==
    /\ lastOp.op = "simulate_attack" /\ lastOp.ret = "returned"
    /\ simulation_history = <<lastOp.ref, lastOp.ref>>
    /\ "vulnerability_analysis" \in HistoryEntry(1).keys
    /\ HistoryEntry(1).status = "simulated"
    /\ Len(HistoryEntry(1).simulation_results) = 1
    /\ Len(HistoryEntry(1).scenario.steps) = 3

\* A step that leaves the history, the current scenario and the status of
\* every scenario as they were.
NothingMoved ==
    /\ simulation_history' = simulation_history
    /\ current_scenario' = current_scenario
    /\ Len(scenarios') = Len(scenarios)
    /\ \A ref \in Refs : scenarios'[ref].status = scenarios[ref].status

\* C27: simulate_attack and analyze_vulnerability called without a scenario
\* while there is no current scenario raise ValueError, and so does
\* save_results while the history is empty; the call leaves the history, the
\* current scenario and the status of every scenario as they were.
C27_NoScenarioRaisesValueError ==
    [][ /\ ( /\ current_scenario = None
             /\ \E d \in LifecycleTapes(Len(StepsOf(None))) : SimulateAttack(None, d) )
           => lastOp'.ret = "ValueError" /\ NothingMoved
        /\ ( /\ current_scenario = None
             /\ \E o \in ServiceOutcomes : AnalyzeVulnerability(None, o) )
           => lastOp'.ret = "ValueError" /\ NothingMoved
        /\ ( /\ simulation_history = <<>>
             /\ \E filename \in Filenames, io \in SaveOutcomes : SaveResults(filename, io) )
           => lastOp'.ret = "ValueError" /\ NothingMoved /\ results_file' = results_file
      ]_vars

\* simulate_attack was called without a scenario and raised, while a scenario
\* a caller had built and simulated exists and there is no current scenario.
C27_Witness ==
    /\ lastOp = Op("simulate_attack", None, "ValueError", "")
    /\ current_scenario = None
    /\ Len(scenarios) >= 1 /\ scenarios[1].status = "simulated"
    /\ simulation_history = <<1>>

\* C28: analyze_simulation_results never raises: it returns the error dict
\* or the analysis dict, and for an empty list the error dict without a call
\* of the service; /api/analyze, when it has results to analyze, answers 500
\* exactly when the dict returned carries an error.
C28_NeverRaisesAnd500IffError ==
    /\ historyAnalysis.op = "analyze_simulation_results" =>
           /\ historyAnalysis.ret \in {"error", "analysis"}
           /\ historyAnalysis.given = <<>> =>
                  historyAnalysis.ret = "error" /\ ~historyAnalysis.called
    /\ response.route = "/api/analyze" /\ response.status # 404 =>
           (response.status = 500 <=> historyAnalysis.ret = "error")

\* What holds: the call raises only while it builds the prompt, before it
\* calls the service; an empty list and a failure of the service give the
\* error dict; and /api/analyze answers 404 without results, 500 for the
\* error dict and 200 for the analysis.
C28_RaisesOnlyFromPrompt ==
    /\ historyAnalysis.op = "analyze_simulation_results" =>
           /\ historyAnalysis.ret \in {"error", "analysis", "TypeError"}
           /\ historyAnalysis.ret = "TypeError" <=>
                  (historyAnalysis.given # <<>> /\ ~PromptBuilt(historyAnalysis.given))
           /\ historyAnalysis.given = <<>> =>
                  historyAnalysis.ret = "error" /\ ~historyAnalysis.called
    /\ response.route = "/api/analyze" =>
           /\ response.status \in {200, 404, 500}
           /\ response.status = 404 <=> simulation_results = <<>>
           /\ response.status = 500 => historyAnalysis.ret = "error"
           /\ response.status = 200 => historyAnalysis.ret = "analysis"

\* analyze_simulation_results, given one scenario whose target is a vessel
\* with a numpy value, raised TypeError before it called the service.
C28_PromptRaisesTypeError ==
    /\ historyAnalysis.op = "analyze_simulation_results"
    /\ historyAnalysis.ret = "TypeError"
    /\ Len(historyAnalysis.given) = 1
    /\ ~historyAnalysis.called

\* /api/analyze answered 500 with the error dict of a failed service call.
C28_RouteAnswered500 ==
    /\ response.route = "/api/analyze" /\ response.status = 500
    /\ historyAnalysis.ret = "error" /\ historyAnalysis.called

\* The places, in the order Key Findings, Attack Pattern, Critical
\* Vulnerabilities, Defense Recommendations, Risk Assessment, of the heading
\* phrases that line i of the reply contains.
PhrasesIn(i) == {k \in 1..Len(Headings) : Contains(Reply[i], Headings[k][1])}

\* C29: a line of the reply that contains a heading phrase is put in no
\* section, list item or not; it makes the section of the first phrase it
\* contains, in the order above, the current one: a line without a phrase
\* that follows it goes to that section or to none.
C29_HeadingLineSwitchesByPrecedence ==
    Split =>
        \A i \in 1..Len(Reply) :
            PhrasesIn(i) # {} =>
                LET first == CHOOSE k \in PhrasesIn(i) : \A l \in PhrasesIn(i) : k <= l
                    section == Headings[first][2]
                IN /\ \A n \in SectionNames : ~PlacedIn(i, n)
                   /\ i < Len(Reply) /\ PhrasesIn(i + 1) = {} =>
                          /\ \A n \in SectionNames : PlacedIn(i + 1, n) => n = section
                          /\ StartsWithDash(Reply[i + 1]) => PlacedIn(i + 1, section)

\* A list item that names Risk Assessment before Key Findings was put in
\* no section, and the list item after it went to key_findings.
C29_Witness ==
    /\ Split
    /\ \E i \in 1..(Len(Reply) - 1) :
           /\ StartsWithDash(Reply[i])
           /\ Cardinality(PhrasesIn(i)) = 2
           /\ \A n \in SectionNames : ~PlacedIn(i, n)
           /\ StartsWithDash(Reply[i + 1]) /\ PhrasesIn(i + 1) = {}
           /\ PlacedIn(i + 1, "key_findings")

\* The ways collect_ais_data comes to return simulated vessels.
FallbackStages == {"no_files", "no_csv", "unreadable_csv", "dump_error"}
FellBack ==
    /\ osintOp.op = "collect_ais_data" /\ osintOp.ret = "returned"
    /\ osintOp.failures \cap FallbackStages # {}

\* C30: a collect_ais_data call that falls back to simulated vessels leaves
\* no vessel cache file, and the next collect_ais_data call queries the
\* dataset source again.
C30_FallbackLeavesCacheUnwritten ==
    /\ [](FellBack => osintOp.cache_after.kind = "absent")
    /\ [][FellBack /\ osintOp'.op = "collect_ais_data" => osintOp'.queried]_vars

\* What holds: the file left by a fallback never holds the simulated vessels.
\* It is absent, or, when the exception came from json.dump, it holds the
\* part of the dump written before the exception, which does not parse; in
\* both cases the next collect_ais_data call queries the dataset source.
C30_FallbackNeverCachesSimulatedVessels ==
    /\ [](FellBack =>
             /\ osintOp.queried
             /\ osintOp.cache_after.kind \in {"absent", "corrupt"}
             /\ osintOp.cache_after.kind = "corrupt" <=> "dump_error" \in osintOp.failures
             /\ ~VesselCacheUsable(osintOp.cache_after))
    /\ [][FellBack /\ osintOp'.op = "collect_ais_data" => osintOp'.queried]_vars

\* collect_ais_data found no cache file, processed a dataset, failed to
\* dump it, returned simulated vessels and left a file that does not parse.
C30_FallbackLeftPartialFile ==
    /\ FellBack /\ "dump_error" \in osintOp.failures
    /\ osintOp.cache_before.kind = "absent"
    /\ osintOp.cache_after.kind = "corrupt"
    /\ aisCache.kind = "corrupt"
    /\ Len(osintOp.value) = osintOp.limit

====
